---- MODULE Spec2Model ----
(***************************************************************************)
(* Model of the tiered reading resolver of church-ai-infrastructure        *)
(* (src/lectionary_service.py): LectionaryService.get_readings and the     *)
(* four tiers it consults, with the cache store shared by its callers; and *)
(* of its calendar (src/calendar_service.py): the date of Easter, the      *)
(* first Sunday of Advent, the reading cycles and get_calendar_info.       *)
(***************************************************************************)
EXTENDS Integers, Sequences, FiniteSets, TLC

(***************************************************************************)
(* Python / JSON values.  Every value is a record of the same shape so     *)
(* that any two values can be compared: t is the type tag, s the text of a *)
(* str, n the number of an int, kv the (key, value) pairs of a dict in     *)
(* insertion order, or the items of a list.  Python's None and JSON's null *)
(* are the same value.                                                     *)
(***************************************************************************)
None == [t |-> "null", s |-> "", n |-> 0, kv |-> <<>>]
Str(s) == [t |-> "str", s |-> s, n |-> 0, kv |-> <<>>]
Num(n) == [t |-> "num", s |-> "", n |-> n, kv |-> <<>>]
List(items) == [t |-> "list", s |-> "", n |-> 0, kv |-> items]
Dict(pairs) == [t |-> "dict", s |-> "", n |-> 0, kv |-> pairs]
Bool(b) == [t |-> "bool", s |-> "", n |-> IF b THEN 1 ELSE 0, kv |-> <<>>]

\* Python truth value: bool(v)
Truthy(v) ==
    CASE v.t = "null" -> FALSE
      [] v.t = "str" -> v.s # ""
      [] v.t = "num" -> v.n # 0
      [] v.t = "bool" -> v.n # 0
      [] OTHER -> v.kv # <<>>

HasKey(v, k) == v.t = "dict" /\ \E i \in 1..Len(v.kv) : v.kv[i][1] = k

\* d[k] for a dict d that has the key k
GetItem(v, k) == v.kv[CHOOSE i \in 1..Len(v.kv) : v.kv[i][1] = k][2]

\* d.get(k, default)
DictGet(v, k, default) == IF HasKey(v, k) THEN GetItem(v, k) ELSE default

\* faulty variant of SetItem: the assignment is lost
KeepItem(v, k, x) == v

\* d[k] = x on a dict: an existing key keeps its position, a new key is appended
SetItem(v, k, x) ==
    IF HasKey(v, k)
    THEN Dict([i \in 1..Len(v.kv) |-> IF v.kv[i][1] = k THEN <<k, x>> ELSE v.kv[i]])
    ELSE Dict(Append(v.kv, <<k, x>>))

(***************************************************************************)
(* Text helpers: strings are read character by character with SubSeq.      *)
(***************************************************************************)
CharAt(s, i) == IF i >= 1 /\ i <= Len(s) THEN SubSeq(s, i, i) ELSE ""

Digits == "0123456789"

IsDigit(c) == c # "" /\ \E i \in 1..10 : SubSeq(Digits, i, i) = c

DigitVal(c) == (CHOOSE i \in 1..10 : SubSeq(Digits, i, i) = c) - 1

\* str(n) of a natural number
NatStr(n) == ToString(n)

\* int(s) of a run of digits
RECURSIVE NatVal(_)
NatVal(s) ==
    IF s = "" THEN 0
    ELSE 10 * NatVal(SubSeq(s, 1, Len(s) - 1)) + DigitVal(SubSeq(s, Len(s), Len(s)))

\* the first position >= i of s that does not hold a blank
RECURSIVE SkipWs(_, _)
SkipWs(s, i) == IF CharAt(s, i) = " " THEN SkipWs(s, i + 1) ELSE i

\* the first position >= i of s that does not hold a digit
RECURSIVE SkipDigits(_, _)
SkipDigits(s, i) == IF IsDigit(CharAt(s, i)) THEN SkipDigits(s, i + 1) ELSE i

\* the text `sub` occurs in s at position i
StartsAt(s, i, sub) == i + Len(sub) - 1 <= Len(s) /\ SubSeq(s, i, i + Len(sub) - 1) = sub

\* Python's `sub in s`
Contains(s, sub) == \E i \in 1..(Len(s) - Len(sub) + 1) : StartsAt(s, i, sub)

\* Python's s.replace(old, new), left to right, non-overlapping (old # "")
RECURSIVE Replace(_, _, _)
Replace(s, old, new) ==
    IF Len(s) < Len(old) THEN s
    ELSE IF StartsAt(s, 1, old)
         THEN new \o Replace(SubSeq(s, Len(old) + 1, Len(s)), old, new)
         ELSE SubSeq(s, 1, 1) \o Replace(SubSeq(s, 2, Len(s)), old, new)

(***************************************************************************)
(* json.dumps with Python's default separators, and json.loads as a        *)
(* parser of the text (objects, arrays, strings without escapes, natural   *)
(* numbers and null).  Loads fails on any other text, as json.loads raises *)
(* ValueError.                                                             *)
(***************************************************************************)
RECURSIVE Dumps(_)
RECURSIVE DumpsPairs(_)
RECURSIVE DumpsItems(_)
DumpsPairs(pairs) ==
    IF pairs = <<>> THEN ""
    ELSE "\"" \o pairs[1][1] \o "\": " \o Dumps(pairs[1][2])
         \o (IF Len(pairs) > 1 THEN ", " \o DumpsPairs(Tail(pairs)) ELSE "")
DumpsItems(items) ==
    IF items = <<>> THEN ""
    ELSE Dumps(items[1])
         \o (IF Len(items) > 1 THEN ", " \o DumpsItems(Tail(items)) ELSE "")
Dumps(v) ==
    CASE v.t = "null" -> "null"
      [] v.t = "str" -> "\"" \o v.s \o "\""
      [] v.t = "num" -> NatStr(v.n)
      [] v.t = "list" -> "[" \o DumpsItems(v.kv) \o "]"
      [] OTHER -> "{" \o DumpsPairs(v.kv) \o "}"

ParseFail == [ok |-> FALSE, v |-> None, next |-> 0]
Parsed(v, next) == [ok |-> TRUE, v |-> v, next |-> next]

\* the position of the first double quote of s at or after i, 0 if there is none
RECURSIVE QuoteFrom(_, _)
QuoteFrom(s, i) ==
    IF i > Len(s) THEN 0
    ELSE IF CharAt(s, i) = "\"" THEN i ELSE QuoteFrom(s, i + 1)

RECURSIVE ParseValue(_, _)
RECURSIVE ParseMembers(_, _, _)
RECURSIVE ParseItems(_, _, _)
\* the members of an object after "{" or ",": s[i] opens a key
ParseMembers(s, i, acc) ==
    LET q == IF CharAt(s, i) = "\"" THEN QuoteFrom(s, i + 1) ELSE 0
        colon == SkipWs(s, q + 1)
        val == ParseValue(s, SkipWs(s, colon + 1))
        after == SkipWs(s, val.next)
        pairs == Append(acc, <<SubSeq(s, i + 1, q - 1), val.v>>)
    IN  IF q = 0 \/ CharAt(s, colon) # ":" THEN ParseFail
        ELSE IF ~val.ok THEN ParseFail
        ELSE IF CharAt(s, after) = "}" THEN Parsed(Dict(pairs), after + 1)
        ELSE IF CharAt(s, after) = "," THEN ParseMembers(s, SkipWs(s, after + 1), pairs)
        ELSE ParseFail
\* the items of an array after "[" or ","
ParseItems(s, i, acc) ==
    LET val == ParseValue(s, i)
        after == SkipWs(s, val.next)
        items == Append(acc, val.v)
    IN  IF ~val.ok THEN ParseFail
        ELSE IF CharAt(s, after) = "]" THEN Parsed(List(items), after + 1)
        ELSE IF CharAt(s, after) = "," THEN ParseItems(s, SkipWs(s, after + 1), items)
        ELSE ParseFail
ParseValue(s, i) ==
    LET c == CharAt(s, i)
    IN  CASE c = "{" ->
               IF CharAt(s, SkipWs(s, i + 1)) = "}"
               THEN Parsed(Dict(<<>>), SkipWs(s, i + 1) + 1)
               ELSE ParseMembers(s, SkipWs(s, i + 1), <<>>)
          [] c = "[" ->
               IF CharAt(s, SkipWs(s, i + 1)) = "]"
               THEN Parsed(List(<<>>), SkipWs(s, i + 1) + 1)
               ELSE ParseItems(s, SkipWs(s, i + 1), <<>>)
          [] c = "\"" ->
               IF QuoteFrom(s, i + 1) = 0 THEN ParseFail
               ELSE Parsed(Str(SubSeq(s, i + 1, QuoteFrom(s, i + 1) - 1)),
                           QuoteFrom(s, i + 1) + 1)
          [] IsDigit(c) ->
               Parsed(Num(NatVal(SubSeq(s, i, SkipDigits(s, i) - 1))), SkipDigits(s, i))
          [] StartsAt(s, i, "null") -> Parsed(None, i + 4)
          [] OTHER -> ParseFail

\* json.loads(text): ok is FALSE where json.loads raises
Loads(text) ==
    LET r == ParseValue(text, SkipWs(text, 1))
    IN  IF r.ok /\ SkipWs(text, r.next) = Len(text) + 1 THEN r ELSE ParseFail

(***************************************************************************)
(* Calendar dates (datetime.date) as records, their formatting and the     *)
(* parsing of a date string by strptime(s, "%Y-%m-%d").                    *)
(***************************************************************************)
Date(y, m, d) == [year |-> y, month |-> m, day |-> d]

IsLeap(y) == (y % 4 = 0 /\ y % 100 # 0) \/ y % 400 = 0

DaysInMonth(y, m) ==
    CASE m \in {4, 6, 9, 11} -> 30
      [] m = 2 -> IF IsLeap(y) THEN 29 ELSE 28
      [] OTHER -> 31

\* dt1 < dt2 on dates
DateLess(a, b) ==
    \/ a.year < b.year
    \/ a.year = b.year /\ a.month < b.month
    \/ a.year = b.year /\ a.month = b.month /\ a.day < b.day

\* n written with at least w digits, zero-padded
RECURSIVE Pad(_, _)
Pad(text, w) == IF Len(text) >= w THEN text ELSE Pad("0" \o text, w)

\* date.isoformat()
isoformat(dt) ==
    Pad(NatStr(dt.year), 4) \o "-" \o Pad(NatStr(dt.month), 2) \o "-" \o Pad(NatStr(dt.day), 2)

MonthNames == <<"January", "February", "March", "April", "May", "June", "July",
                "August", "September", "October", "November", "December">>

\* dt.strftime("%B %d")
strftime_B_d(dt) == MonthNames[dt.month] \o " " \o Pad(NatStr(dt.day), 2)

\* faulty variant of strptime: every text is taken for a date
strptime_any(s) == [ok |-> TRUE, date |-> Date(2026, 1, 25)]

\* datetime.strptime(s, "%Y-%m-%d").date(): ok is FALSE where it raises ValueError
strptime(s) ==
    LET y2 == SkipDigits(s, 1)
        m1 == y2 + 1
        m2 == SkipDigits(s, m1)
        d1 == m2 + 1
        d2 == SkipDigits(s, d1)
        shape == /\ y2 = 5
                 /\ CharAt(s, y2) = "-"
                 /\ m2 - m1 \in {1, 2}
                 /\ CharAt(s, m2) = "-"
                 /\ d2 - d1 \in {1, 2}
                 /\ d2 = Len(s) + 1
        y == NatVal(SubSeq(s, 1, 4))
        m == NatVal(SubSeq(s, m1, m2 - 1))
        d == NatVal(SubSeq(s, d1, d2 - 1))
    IN  IF shape /\ y >= 1 /\ m \in 1..12 /\ d >= 1 /\ d <= DaysInMonth(y, m)
        THEN [ok |-> TRUE, date |-> Date(y, m, d)]
        ELSE [ok |-> FALSE, date |-> Date(1, 1, 1)]

(***************************************************************************)
(* Tier 4 data: the built-in Year A table, in table order.                 *)
(***************************************************************************)
Readings(first_lesson, psalm, second_lesson, gospel) ==
    Dict(<< <<"first_lesson", Str(first_lesson)>>, <<"psalm", Str(psalm)>>,
            <<"second_lesson", Str(second_lesson)>>, <<"gospel", Str(gospel)>> >>)

BUILTIN_YEAR_A == <<
    <<"The First Sunday of Advent",
      Readings("Isaiah 2:1-5", "Psalm 122",
               "Romans 13:11-14", "Matthew 24:36-44")>>,
    <<"The Second Sunday of Advent",
      Readings("Isaiah 11:1-10", "Psalm 72:1-7, 18-19",
               "Romans 15:4-13", "Matthew 3:1-12")>>,
    <<"The Third Sunday of Advent",
      Readings("Isaiah 35:1-10", "Psalm 146:4-9 or Canticle 15",
               "James 5:7-10", "Matthew 11:2-11")>>,
    <<"The Fourth Sunday of Advent",
      Readings("Isaiah 7:10-16", "Psalm 80:1-7, 16-18",
               "Romans 1:1-7", "Matthew 1:18-25")>>,
    <<"Christmas",
      Readings("Isaiah 9:2-7", "Psalm 96",
               "Titus 2:11-14", "Luke 2:1-20")>>,
    <<"The Epiphany",
      Readings("Isaiah 60:1-6", "Psalm 72:1-7, 10-14",
               "Ephesians 3:1-12", "Matthew 2:1-12")>>,
    <<"The First Sunday after the Epiphany",
      Readings("Isaiah 42:1-9", "Psalm 29",
               "Acts 10:34-43", "Matthew 3:13-17")>>,
    <<"The Second Sunday after the Epiphany",
      Readings("Isaiah 49:1-7", "Psalm 40:1-12",
               "1 Corinthians 1:1-9", "John 1:29-42")>>,
    <<"The Third Sunday after the Epiphany",
      Readings("Isaiah 9:1-4", "Psalm 27:1, 5-13",
               "1 Corinthians 1:10-18", "Matthew 4:12-23")>>,
    <<"The Fourth Sunday after the Epiphany",
      Readings("Micah 6:1-8", "Psalm 15",
               "1 Corinthians 1:18-31", "Matthew 5:1-12")>>,
    <<"The Fifth Sunday after the Epiphany",
      Readings("Isaiah 58:1-9a", "Psalm 112:1-9",
               "1 Corinthians 2:1-12", "Matthew 5:13-20")>>,
    <<"The Sixth Sunday after the Epiphany",
      Readings("Deuteronomy 30:15-20", "Psalm 119:1-8",
               "1 Corinthians 3:1-9", "Matthew 5:21-37")>>,
    <<"The Seventh Sunday after the Epiphany",
      Readings("Leviticus 19:1-2, 9-18", "Psalm 119:33-40",
               "1 Corinthians 3:10-11, 16-23", "Matthew 5:38-48")>>,
    <<"The Last Sunday after the Epiphany",
      Readings("Exodus 24:12-18", "Psalm 2 or Psalm 99",
               "2 Peter 1:16-21", "Matthew 17:1-9")>>,
    <<"The First Sunday in Lent",
      Readings("Genesis 2:15-17; 3:1-7", "Psalm 32",
               "Romans 5:12-19", "Matthew 4:1-11")>>,
    <<"The Second Sunday in Lent",
      Readings("Genesis 12:1-4a", "Psalm 121",
               "Romans 4:1-5, 13-17", "John 3:1-17")>>,
    <<"The Third Sunday in Lent",
      Readings("Exodus 17:1-7", "Psalm 95",
               "Romans 5:1-11", "John 4:5-42")>>,
    <<"The Fourth Sunday in Lent",
      Readings("1 Samuel 16:1-13", "Psalm 23",
               "Ephesians 5:8-14", "John 9:1-41")>>,
    <<"The Fifth Sunday in Lent",
      Readings("Ezekiel 37:1-14", "Psalm 130",
               "Romans 8:6-11", "John 11:1-45")>>,
    <<"Palm Sunday",
      Readings("Isaiah 50:4-9a", "Psalm 31:9-16",
               "Philippians 2:5-11", "Matthew 26:14-27:66")>>,
    <<"Easter Day",
      Readings("Acts 10:34-43", "Psalm 118:1-2, 14-24",
               "Colossians 3:1-4", "Matthew 28:1-10")>>,
    <<"The Second Sunday of Easter",
      Readings("Acts 2:14a, 22-32", "Psalm 16",
               "1 Peter 1:3-9", "John 20:19-31")>>,
    <<"The Third Sunday of Easter",
      Readings("Acts 2:14a, 36-41", "Psalm 116:1-3, 10-17",
               "1 Peter 1:17-23", "Luke 24:13-35")>>,
    <<"The Day of Pentecost",
      Readings("Acts 2:1-21", "Psalm 104:25-35, 37",
               "1 Corinthians 12:3b-13", "John 20:19-23")>>,
    <<"Trinity Sunday",
      Readings("Genesis 1:1-2:4a", "Psalm 8",
               "2 Corinthians 13:11-13", "Matthew 28:16-20")>>
>>

Upper == "ABCDEFGHIJKLMNOPQRSTUVWXYZ"
Lower == "abcdefghijklmnopqrstuvwxyz"

LowerChar(c) ==
    IF \E i \in 1..26 : SubSeq(Upper, i, i) = c
    THEN LET i == CHOOSE j \in 1..26 : SubSeq(Upper, j, j) = c IN SubSeq(Lower, i, i)
    ELSE c

\* str.lower()
RECURSIVE lower(_)
lower(s) == IF s = "" THEN "" ELSE LowerChar(SubSeq(s, 1, 1)) \o lower(SubSeq(s, 2, Len(s)))

\* str.strip() (blanks)
RECURSIVE strip(_)
strip(s) ==
    IF s = "" THEN s
    ELSE IF SubSeq(s, 1, 1) = " " THEN strip(SubSeq(s, 2, Len(s)))
    ELSE IF SubSeq(s, Len(s), Len(s)) = " " THEN strip(SubSeq(s, 1, Len(s) - 1))
    ELSE s

\* the result dict a tier returns: {"source": source, "readings": readings}
TierResult(source, readings) == Dict(<< <<"source", Str(source)>>, <<"readings", readings>> >>)

\* pattern.lower() of every table entry, in table order
PatternLower == [i \in 1..Len(BUILTIN_YEAR_A) |-> lower(BUILTIN_YEAR_A[i][1])]

\* faulty variant of PartialMatch: a later entry of the same length replaces
\* the best match
RECURSIVE PartialMatch_last(_, _, _, _)
PartialMatch_last(name_lower, i, best_match, best_len) ==
    IF i > Len(BUILTIN_YEAR_A) THEN best_match
    ELSE LET p_lower == PatternLower[i]
         IN  IF Contains(name_lower, p_lower) /\ Len(p_lower) >= best_len
             THEN PartialMatch_last(name_lower, i + 1,
                                    TierResult("builtin-year-a", BUILTIN_YEAR_A[i][2]),
                                    Len(p_lower))
             ELSE PartialMatch_last(name_lower, i + 1, best_match, best_len)

\* the partial-match loop of _lookup_builtin from table position i on,
\* carrying best_match and best_len
RECURSIVE PartialMatch(_, _, _, _)
PartialMatch(name_lower, i, best_match, best_len) ==
    IF i > Len(BUILTIN_YEAR_A) THEN best_match
    ELSE LET p_lower == PatternLower[i]
         IN  IF Contains(name_lower, p_lower) /\ Len(p_lower) > best_len
             THEN PartialMatch(name_lower, i + 1,
                               TierResult("builtin-year-a", BUILTIN_YEAR_A[i][2]), Len(p_lower))
             ELSE PartialMatch(name_lower, i + 1, best_match, best_len)

\* faulty variant of _lookup_builtin: the day name is compared as it is written
_lookup_builtin_as_written(day_name) ==
    IF ~Truthy(day_name) THEN None
    ELSE LET name == strip(day_name.s)
             exact == {i \in 1..Len(BUILTIN_YEAR_A) : PatternLower[i] = name}
         IN  IF exact # {}
             THEN TierResult("builtin-year-a",
                             BUILTIN_YEAR_A[CHOOSE i \in exact : \A j \in exact : i <= j][2])
             ELSE PartialMatch(name, 1, None, 0)

\* LectionaryService._lookup_builtin(day_name); day_name is None or a str
_lookup_builtin(day_name) ==
    IF ~Truthy(day_name) THEN None
    ELSE LET name_lower == strip(lower(day_name.s))
             exact == {i \in 1..Len(BUILTIN_YEAR_A) : PatternLower[i] = name_lower}
         IN  IF exact # {}
             THEN TierResult("builtin-year-a",
                             BUILTIN_YEAR_A[CHOOSE i \in exact : \A j \in exact : i <= j][2])
             ELSE PartialMatch(name_lower, 1, None, 0)

(***************************************************************************)
(* Tier 2: the daily-office files.  A file system state gives, for each of *)
(* the two documents, whether it exists and its text.                      *)
(***************************************************************************)
File(exists, text) == [exists |-> exists, text |-> text]

\* faulty variant of ScanOffices: the last matching record is returned
RECURSIVE ScanOffices_last(_, _, _)
ScanOffices_last(offices, i, target) ==
    IF i > Len(offices) THEN None
    ELSE IF offices[i].t # "dict" THEN None
    ELSE IF /\ DictGet(offices[i], "day", Str("")) = Str(target)
            /\ ScanOffices_last(offices, i + 1, target) = None
         THEN TierResult("daily-office-json", offices[i])
         ELSE ScanOffices_last(offices, i + 1, target)

\* the `for office in offices` loop from position i on; a record that is not
\* a dict makes office.get raise, which the except clause turns into None
RECURSIVE ScanOffices(_, _, _)
ScanOffices(offices, i, target) ==
    IF i > Len(offices) THEN None
    ELSE IF offices[i].t # "dict" THEN None
    ELSE IF DictGet(offices[i], "day", Str("")) = Str(target)
         THEN TierResult("daily-office-json", offices[i])
         ELSE ScanOffices(offices, i + 1, target)

\* faulty variant of DailyOfficeFilename: the year changes on December 25
DailyOfficeFilename_christmas(dt) ==
    LET year_num == IF DateLess(dt, Date(dt.year, 12, 25)) THEN dt.year - 1 ELSE dt.year
    IN  IF year_num % 2 = 1 THEN "year-one.json" ELSE "year-two.json"

\* lines 228-232 of _lookup_daily_office: the document of the date
DailyOfficeFilename(dt) ==
    LET advent == Date(dt.year, 11, 27)
        year_num == IF DateLess(dt, advent) THEN dt.year - 1 ELSE dt.year
    IN  IF year_num % 2 = 1 THEN "year-one.json" ELSE "year-two.json"

\* LectionaryService._lookup_daily_office(dt) with daily_office_path = path
\* ("" when it was not given) and the file system in state fs
_lookup_daily_office(path, dt, fs) ==
    IF path = "" THEN None
    ELSE LET filename == DailyOfficeFilename(dt)
             file == fs[filename]
             offices == Loads(file.text)
             target == Replace(strftime_B_d(dt), " 0", " ")
         IN  IF ~file.exists THEN None
             ELSE IF ~offices.ok THEN None
             ELSE IF offices.v.t = "list" THEN ScanOffices(offices.v.kv, 1, target)
             ELSE None

(***************************************************************************)
(* Tier 3: the LectServe request.  A response is a transport failure       *)
(* (kind "error" or "timeout", httpx raises) or an HTTP answer with a      *)
(* status code and a body.                                                 *)
(***************************************************************************)
Response(kind, status_code, body) == [kind |-> kind, status_code |-> status_code, body |-> body]

\* faulty variant of _lookup_lectserve: the status code is not looked at
_lookup_lectserve_any_status(dt, resp) ==
    IF resp.kind # "http" THEN None
    ELSE IF Loads(resp.body).ok
         THEN TierResult("lectserve", Loads(resp.body).v)
         ELSE None

\* LectionaryService._lookup_lectserve(dt) when httpx.get answers resp
_lookup_lectserve(dt, resp) ==
    IF resp.kind # "http" THEN None
    ELSE IF resp.status_code = 200
         THEN IF Loads(resp.body).ok
              THEN TierResult("lectserve", Loads(resp.body).v)
              ELSE None
         ELSE None

(***************************************************************************)
(* calendar_service.py: date arithmetic of datetime.date, the date of      *)
(* Easter, the first Sunday of Advent and the two reading cycles.          *)
(***************************************************************************)
\* days before January 1 of year y, counted from 0001-01-01
DaysBeforeYear(y) == (y - 1) * 365 + (y - 1) \div 4 - (y - 1) \div 100 + (y - 1) \div 400

\* days of year y before the first day of month m
RECURSIVE DaysBeforeMonth(_, _)
DaysBeforeMonth(y, m) ==
    IF m = 1 THEN 0 ELSE DaysBeforeMonth(y, m - 1) + DaysInMonth(y, m - 1)

\* date.toordinal(): 0001-01-01 is day 1
toordinal(dt) == DaysBeforeYear(dt.year) + DaysBeforeMonth(dt.year, dt.month) + dt.day

\* the year that holds day n, searched upward from y
RECURSIVE YearOfOrdinal(_, _)
YearOfOrdinal(n, y) == IF DaysBeforeYear(y + 1) < n THEN YearOfOrdinal(n, y + 1) ELSE y

\* the month of year y that holds its day n, searched upward from m
RECURSIVE MonthOfDay(_, _, _)
MonthOfDay(y, n, m) ==
    IF DaysBeforeMonth(y, m) + DaysInMonth(y, m) < n THEN MonthOfDay(y, n, m + 1) ELSE m

\* date.fromordinal(n)
fromordinal(n) ==
    LET y == YearOfOrdinal(n, (n - 1) \div 366 + 1)
        m == MonthOfDay(y, n - DaysBeforeYear(y), 1)
    IN  Date(y, m, n - DaysBeforeYear(y) - DaysBeforeMonth(y, m))

\* dt + timedelta(days=n), n of either sign
timedelta_added(dt, n) == fromordinal(toordinal(dt) + n)

\* date.weekday(): Monday is 0, Sunday is 6
weekday(dt) == (toordinal(dt) + 6) % 7

\* dt1 >= dt2 on dates
DateGeq(a, b) == ~DateLess(a, b)

\* faulty variant of _computus: the last step leaves out the "+ 1"
_computus_day0(year) ==
    LET a == year % 19
        b == year \div 100
        c == year % 100
        d == b \div 4
        e == b % 4
        f == (b + 8) \div 25
        g == (b - f + 1) \div 3
        h == (19 * a + b - d - g + 15) % 30
        i == c \div 4
        k == c % 4
        l == (32 + 2 * e + 2 * i - h - k) % 7
        m == (a + 11 * h + 22 * l) \div 451
    IN  Date(year, (h + l - 7 * m + 114) \div 31, (h + l - 7 * m + 114) % 31)

\* faulty variant of _computus: the correction m is left out
_computus_uncorrected(year) ==
    LET a == year % 19
        b == year \div 100
        c == year % 100
        d == b \div 4
        e == b % 4
        f == (b + 8) \div 25
        g == (b - f + 1) \div 3
        h == (19 * a + b - d - g + 15) % 30
        i == c \div 4
        k == c % 4
        l == (32 + 2 * e + 2 * i - h - k) % 7
    IN  Date(year, (h + l + 114) \div 31, ((h + l + 114) % 31) + 1)

\* _computus(year): Easter Sunday of the year
_computus(year) ==
    LET a == year % 19
        b == year \div 100
        c == year % 100
        d == b \div 4
        e == b % 4
        f == (b + 8) \div 25
        g == (b - f + 1) \div 3
        h == (19 * a + b - d - g + 15) % 30
        i == c \div 4
        k == c % 4
        l == (32 + 2 * e + 2 * i - h - k) % 7
        m == (a + 11 * h + 22 * l) \div 451
        month == (h + l - 7 * m + 114) \div 31
        day == ((h + l - 7 * m + 114) % 31) + 1
    IN  Date(year, month, day)

\* _first_sunday_of_advent(year)
_first_sunday_of_advent(year) ==
    LET christmas == Date(year, 12, 25)
        days_to_sunday == (weekday(christmas) + 1) % 7
        fourth_sunday == timedelta_added(christmas, 0 - days_to_sunday)
    IN  timedelta_added(fourth_sunday, 0 - 7 * 3)

\* the year both cycles are computed from (lines 54-55 and 61-62)
CycleYear(dt) ==
    IF DateGeq(dt, _first_sunday_of_advent(dt.year)) THEN dt.year ELSE dt.year - 1

\* calculate_rcl_year(dt)
calculate_rcl_year(dt) ==
    LET year == CycleYear(dt)
    IN  CASE year % 3 = 0 -> "A"
          [] year % 3 = 1 -> "B"
          [] OTHER -> "C"

\* calculate_lectionary_year(dt)
calculate_lectionary_year(dt) ==
    IF CycleYear(dt) % 2 = 1 THEN "Year One" ELSE "Year Two"

(***************************************************************************)
(* calendar_service.py: the name tables, _map_episcopal_name and           *)
(* get_calendar_info.  A function that may raise gives [ok, v]: ok is      *)
(* FALSE where it raises.                                                  *)
(***************************************************************************)
SEASON_MAP ==
    Dict(<< <<"Advent", Str("Advent")>>,
            <<"Christmas", Str("Christmas")>>,
            <<"Epiphany", Str("The Season after the Epiphany")>>,
            <<"before Lent", Str("The Season after the Epiphany")>>,
            <<"Lent", Str("Lent")>>,
            <<"Easter", Str("Easter")>>,
            <<"Pentecost", Str("The Season after Pentecost")>>,
            <<"before Advent", Str("The Season after Pentecost")>>,
            <<"Ordinary Time", Str("The Season after Pentecost")>> >>)

\* faulty variant of COLOUR_MAP: Lent is White
COLOUR_MAP_lent_white ==
    Dict(<< <<"Advent", Str("Purple")>>,
            <<"Christmas", Str("White")>>,
            <<"The Season after the Epiphany", Str("Green")>>,
            <<"Lent", Str("White")>>,
            <<"Easter", Str("White")>>,
            <<"The Season after Pentecost", Str("Green")>> >>)

COLOUR_MAP ==
    Dict(<< <<"Advent", Str("Purple")>>,
            <<"Christmas", Str("White")>>,
            <<"The Season after the Epiphany", Str("Green")>>,
            <<"Lent", Str("Purple")>>,
            <<"Easter", Str("White")>>,
            <<"The Season after Pentecost", Str("Green")>> >>)

\* the name tables, keyed 1, 2, ... in this order
EPIPHANY_NAMES ==
    <<"The First Sunday after the Epiphany: The Baptism of our Lord",
      "The Second Sunday after the Epiphany",
      "The Third Sunday after the Epiphany",
      "The Fourth Sunday after the Epiphany",
      "The Fifth Sunday after the Epiphany",
      "The Sixth Sunday after the Epiphany",
      "The Seventh Sunday after the Epiphany",
      "The Eighth Sunday after the Epiphany",
      "The Last Sunday after the Epiphany">>

LENT_NAMES ==
    <<"The First Sunday in Lent", "The Second Sunday in Lent", "The Third Sunday in Lent",
      "The Fourth Sunday in Lent", "The Fifth Sunday in Lent", "Palm Sunday">>

EASTER_NAMES ==
    <<"Easter Day", "The Second Sunday of Easter", "The Third Sunday of Easter",
      "The Fourth Sunday of Easter", "The Fifth Sunday of Easter",
      "The Sixth Sunday of Easter", "The Sunday after the Ascension",
      "The Day of Pentecost">>

Raised == [ok |-> FALSE, v |-> None]
Returned(v) == [ok |-> TRUE, v |-> v]

\* the value can be a dict key
Hashable(v) == v.t \notin {"list", "dict"}

\* str(v) as an f-string writes it, for None, a str and a natural number
pystr(v) ==
    CASE v.t = "null" -> "None"
      [] v.t = "str" -> v.s
      [] OTHER -> NatStr(v.n)

\* MAP.get(key, default) on a dict with str keys, key being hashable
MapGet(map, key, default) ==
    IF key.t = "str" THEN DictGet(map, key.s, default) ELSE default

\* NAMES.get(weekno, f"{before}{weekno}{after}")
NameOfWeek(names, weekno, before, after) ==
    IF ~Hashable(weekno) THEN Raised
    ELSE IF weekno.t = "num" /\ weekno.n \in 1..Len(names) THEN Returned(Str(names[weekno.n]))
    ELSE Returned(Str(before \o pystr(weekno) \o after))

\* _map_episcopal_name(season, weekno, cal_name); weekno is not negative
_map_episcopal_name(season, weekno, cal_name) ==
    IF ~Hashable(season) THEN Raised
    ELSE
    LET mapped_season == MapGet(SEASON_MAP, season, season)
        ordinals == <<"First", "Second", "Third", "Fourth">>
    IN  CASE mapped_season = Str("Advent") ->
                IF Truthy(weekno)
                THEN IF weekno.t = "num"
                     THEN Returned(Str("The "
                              \o ordinals[(IF weekno.n - 1 < 3 THEN weekno.n - 1 ELSE 3) + 1]
                              \o " Sunday of Advent"))
                     ELSE Raised
                ELSE Returned(Str("Advent"))
          [] mapped_season = Str("The Season after the Epiphany") ->
                IF cal_name = Str("Epiphany") \/ cal_name = Str("The Epiphany")
                THEN Returned(Str("The Epiphany"))
                ELSE NameOfWeek(EPIPHANY_NAMES, weekno,
                                "The Season after the Epiphany (Week ", ")")
          [] mapped_season = Str("Lent") ->
                NameOfWeek(LENT_NAMES, weekno, "Lent Week ", "")
          [] mapped_season = Str("Easter") ->
                NameOfWeek(EASTER_NAMES, weekno, "Easter Week ", "")
          [] mapped_season = Str("The Season after Pentecost") ->
                IF Truthy(weekno)
                THEN IF weekno.t = "num"
                     THEN Returned(Str("Proper " \o NatStr(weekno.n + 1)
                                       \o " (The Season after Pentecost)"))
                     ELSE Raised
                ELSE Returned(Str("The Season after Pentecost"))
          [] OTHER ->
                Returned(IF Truthy(cal_name) THEN cal_name ELSE mapped_season)

\* result.update(pairs)
RECURSIVE Update(_, _)
Update(result, pairs) ==
    IF pairs = <<>> THEN result
    ELSE Update(SetItem(result, pairs[1][1], pairs[1][2]), Tail(pairs))

\* lines 166-172: the part of the result that needs neither path
InfoBase(dt) ==
    Dict(<< <<"date", Str(isoformat(dt))>>,
            <<"is_sunday", Bool(weekday(dt) = 6)>>,
            <<"rcl_year", Str(calculate_rcl_year(dt))>>,
            <<"lectionary_year", Str(calculate_lectionary_year(dt))>>,
            <<"easter_date", Str(isoformat(_computus(dt.year)))>> >>)

\* lines 176-188: the result built from the authority's answer cal; ok is
\* FALSE where an exception is raised inside the try
FromAuthority(result, cal) ==
    IF cal.t # "dict" THEN Raised
    ELSE
    LET pkg_season == DictGet(cal, "season", Str(""))
        weekno == DictGet(cal, "weekno", Num(0))
        cal_name == DictGet(cal, "name", Str(""))
        day_name == _map_episcopal_name(pkg_season, weekno, cal_name)
    IN  IF ~Hashable(pkg_season) \/ ~day_name.ok THEN Raised
        ELSE Returned(Update(result,
                 << <<"day_name", day_name.v>>,
                    <<"season", MapGet(SEASON_MAP, pkg_season, pkg_season)>>,
                    <<"colour", MapGet(COLOUR_MAP, MapGet(SEASON_MAP, pkg_season, pkg_season),
                                       Str("Green"))>>,
                    <<"raw_calendar", cal>> >>))

\* lines 193-212: the season of the built-in calculator
BuiltinSeason(dt) ==
    LET easter_dt == _computus(dt.year)
        ash_wed == timedelta_added(easter_dt, 0 - 46)
        pentecost == timedelta_added(easter_dt, 49)
        advent == _first_sunday_of_advent(dt.year)
        epiphany == Date(dt.year, 1, 6)
    IN  IF DateGeq(dt, advent) THEN "Advent"
        ELSE IF DateGeq(dt, Date(dt.year, 12, 25)) THEN "Christmas"
        ELSE IF DateLess(dt, epiphany) THEN "Christmas"
        ELSE IF DateLess(dt, ash_wed) THEN "The Season after the Epiphany"
        ELSE IF DateLess(dt, easter_dt) THEN "Lent"
        ELSE IF DateLess(dt, pentecost) THEN "Easter"
        ELSE "The Season after Pentecost"

\* lines 192-219: the result of the built-in calculator
Fallback(result, dt) ==
    LET season == BuiltinSeason(dt)
    IN  Update(result,
            << <<"day_name", Str(season)>>,
               <<"season", Str(season)>>,
               <<"colour", MapGet(COLOUR_MAP, Str(season), Str("Green"))>> >>)

\* what liturgical_calendar(...) does when called: it raises, or returns a value
AuthorityRaises == [kind |-> "raises", value |-> None]
AuthorityReturns(v) == [kind |-> "returns", value |-> v]

\* lines 166-219 of get_calendar_info for the date dt
get_calendar_info(dt, has_pkg, answer) ==
    LET result == InfoBase(dt)
        tried == FromAuthority(result, answer.value)
    IN  IF has_pkg /\ answer.kind = "returns" /\ tried.ok
        THEN tried.v
        ELSE Fallback(result, dt)

(***************************************************************************)
(* Bounds and input sets of the model.                                     *)
(***************************************************************************)
\* total number of get_readings calls in a behaviour
MaxCalls == 3

\* total number of writes by other writers in a behaviour
MaxForeign == 1

\* the callers: two workers share the cache store, so that two calls may be
\* in progress at the same time
Callers == {1, 2}

D1 == Date(2026, 1, 25)
D2 == Date(2026, 12, 5)
Dates == {D1, D2}

\* the dt argument: a date, a datetime (its date part is kept) or a str
DateArg(kind, date, text) == [kind |-> kind, date |-> date, text |-> text]
DtInputs ==
    {DateArg("date", D1, ""), DateArg("date", D2, ""), DateArg("datetime", D2, ""),
     DateArg("str", D1, "2026-01-25"), DateArg("str", D1, "2026-02-30")}

DayNameInputs ==
    {None, Str("The Third Sunday after the Epiphany"),
     Str("Proper 5 (The Season after Pentecost)")}

\* the authority is not installed: it is never called
NotInstalled == [kind |-> "absent", value |-> None]

\* what the authority may do when it is called
AuthorityAnswers ==
    {AuthorityRaises,
     AuthorityReturns(None),
     AuthorityReturns(Dict(<<>>)),
     AuthorityReturns(Dict(<< <<"season", Str("Lent")>> >>)),
     AuthorityReturns(Dict(<< <<"season", Str("Lent")>>, <<"weekno", Num(3)>>,
                              <<"name", Str("Lent 3")>> >>)),
     AuthorityReturns(Dict(<< <<"season", Str("before Advent")>>, <<"weekno", Num(2)>>,
                              <<"name", Str("")>> >>)),
     AuthorityReturns(Dict(<< <<"season", Str("Trinity")>>, <<"weekno", Num(3)>>,
                              <<"name", Str("Trinity 3")>> >>)),
     AuthorityReturns(Dict(<< <<"season", Str("Advent")>>, <<"weekno", Str("1")>>,
                              <<"name", Str("Advent 1")>> >>))}

\* the date_str path parameter of the two endpoints: dates written with and
\* without padding, and texts that are not dates
DateStrings == {"2026-01-25", "2026-12-5", "2026-02-30", "25/01/2026", ""}

\* get_calendar_info(dt) for the dates of the service and what the authority
\* does, the package being installed exactly when the authority is asked
CalendarTable ==
    [dt \in Dates, answer \in AuthorityAnswers \cup {NotInstalled} |->
        get_calendar_info(dt, answer # NotInstalled, answer)]

\* cal.get("day_name") of these results
EndpointDayNames ==
    {DictGet(CalendarTable[dt, answer], "day_name", None) :
        dt \in Dates, answer \in AuthorityAnswers \cup {NotInstalled}}

\* day names for the built-in tier: table names in other letter case, names
\* that contain table names, and a name the table does not know
BuiltinNameInputs ==
    {None, Str("The Third Sunday after the Epiphany"),
     Str("THE THIRD SUNDAY AFTER THE EPIPHANY"),
     Str("palm sunday"),
     Str("The First Sunday after the Epiphany: The Baptism of our Lord"),
     Str("Proper 5 (The Season after Pentecost)")}

\* day names for _lookup_builtin alone: every table name between a text
\* before and a text after it, every two table names side by side, and
\* names the table does not know
NameInputs ==
    {Str(before \o BUILTIN_YEAR_A[i][1] \o after) :
        before \in {"", " ", "Eve of "}, i \in 1..Len(BUILTIN_YEAR_A),
        after \in {"", " ", ": The Baptism of our Lord"}}
    \cup {Str(BUILTIN_YEAR_A[i][1] \o " / " \o BUILTIN_YEAR_A[j][1]) :
              i \in 1..Len(BUILTIN_YEAR_A), j \in 1..Len(BUILTIN_YEAR_A)}
    \cup BuiltinNameInputs
    \cup {Str(""), Str("  "), Str("Sunday"), Str("CHRISTMAS DAY"), Str("The Epiphan")}

OfficeJan25 == Dict(<< <<"day", Str("January 25")>>, <<"psalm", Str("Psalm 27")>> >>)
OfficeDec5 == Dict(<< <<"day", Str("December 5")>>, <<"psalm", Str("Psalm 20")>> >>)

\* file system states, by name: both documents absent, year-one unparsable,
\* or both documents present with one record each
FsAbsent == [f \in {"year-one.json", "year-two.json"} |-> File(FALSE, "")]
FsCorrupt ==
    [f \in {"year-one.json", "year-two.json"} |->
        IF f = "year-one.json" THEN File(TRUE, "[{\"day\": ") ELSE File(FALSE, "")]
FsOk ==
    [f \in {"year-one.json", "year-two.json"} |->
        IF f = "year-one.json" THEN File(TRUE, Dumps(List(<<OfficeJan25>>)))
        ELSE File(TRUE, Dumps(List(<<OfficeDec5>>)))]
FileSystemNames == {"absent", "corrupt", "ok"}
FileSystem(name) ==
    CASE name = "absent" -> FsAbsent
      [] name = "corrupt" -> FsCorrupt
      [] OTHER -> FsOk

RemoteA == Dict(<< <<"gospel", Str("Matthew 4:12-23")>> >>)
BodyA == Dumps(RemoteA)
NoResponse == Response("unseen", 0, "")
Responses ==
    {Response("error", 0, ""), Response("timeout", 0, ""),
     Response("http", 404, BodyA), Response("http", 200, BodyA)}

\* payloads another writer may leave in the cache store
ForeignPayloads == {"not json", "[1]", "{\"a\": 1}"}

CacheKeys == {"rcl:" \o isoformat(d) : d \in Dates}

\* the histories are kept for the calls for one date; the calls for the
\* other date run alongside
Watched == "rcl:" \o isoformat(D1)

Paths == {"", "/app/data/daily-office"}

(***************************************************************************)
(* The pure functions above, tabulated once over the inputs of the model.  *)
(***************************************************************************)
DailyOfficeTable ==
    [path \in Paths, dt \in Dates, fsname \in FileSystemNames |->
        _lookup_daily_office(path, dt, FileSystem(fsname))]
LectserveTable ==
    [dt \in Dates, resp \in Responses \cup {NoResponse} |-> _lookup_lectserve(dt, resp)]
BuiltinTable ==
    [name \in DayNameInputs \cup BuiltinNameInputs \cup EndpointDayNames |->
        _lookup_builtin(name)]

\* faulty variant of NotFound: nothing is returned
NotFoundNone == None

\* the value returned when every tier missed (line 318)
NotFound ==
    Dict(<< <<"source", Str("none")>>, <<"readings", None>>,
            <<"message", Str("No readings found")>> >>)

\* every result a tier can produce
TierResults ==
    ({DailyOfficeTable[path, dt, fsname] :
          path \in Paths, dt \in Dates, fsname \in FileSystemNames}
     \cup {LectserveTable[dt, resp] : dt \in Dates, resp \in Responses}
     \cup {BuiltinTable[name] : name \in DOMAIN BuiltinTable}) \ {None}

DumpsTable == [v \in TierResults \cup {NotFound} |-> Dumps(v)]
LoadsTable ==
    [text \in {DumpsTable[v] : v \in DOMAIN DumpsTable} \cup ForeignPayloads |-> Loads(text)]
StrptimeTable == [text \in {arg.text : arg \in DtInputs} \cup DateStrings |-> strptime(text)]
IsoformatTable == [dt \in Dates |-> isoformat(dt)]

\* json.dumps(v) and json.loads(text), for the values and the texts that occur
json_dumps(v) == DumpsTable[v]
json_loads(text) == LoadsTable[text]

\* the value json.loads returns, None where it raises and the caller's
\* except clause returns None
OrNone(loaded) == IF loaded.ok THEN loaded.v ELSE None

(***************************************************************************)
(* State.                                                                  *)
(***************************************************************************)
VARIABLES
    redis_client,       \* LectionaryService.redis_client: "none" or "client"
    daily_office_path,  \* LectionaryService.daily_office_path: "" when not given
    store,              \* the cache store: key -> [val, ttl] for the keys it holds
    call,               \* per caller, the get_readings call in progress
    started,            \* number of calls started so far
    foreign,            \* number of writes by other writers so far
    answers,            \* what the dataset and the remote answer: free, or one fixed answer
    lastw,              \* history: key -> the result of the latest write-back
    estab,              \* history: key -> the readings first written since the key was last absent
    prev,               \* history: key -> the call for that key that returned last
    HAS_LITURGICAL_PKG, \* calendar_service.HAS_LITURGICAL_PKG, set when the module is imported
    info,               \* the get_calendar_info call: its argument, the authority's answer, its outcome
    probe,              \* the function or exchange under examination: its argument and its value
    plans,              \* MusicService.plans: service date -> the data saved for it
    storage_path,       \* the file at MusicService.storage_path: whether it exists, its text
    history,            \* history: the save_plan and delete_plan calls that returned, in order
    manifest,           \* AssetExtractor.manifest: the entries in the order they were added
    asset_dir           \* the image files under AssetExtractor.asset_dir: path -> bytes

vars ==
    <<redis_client, daily_office_path, store, call, started, foreign, answers,
      lastw, estab, prev, HAS_LITURGICAL_PKG, info, probe,
      plans, storage_path, history, manifest, asset_dir>>

\* the state of LectionaryService and its callers / of calendar_service
service_vars ==
    <<redis_client, daily_office_path, store, call, started, foreign, answers,
      lastw, estab, prev>>
calendar_vars == <<HAS_LITURGICAL_PKG, info, probe>>

\* the state of MusicService / of AssetExtractor
music_vars == <<plans, storage_path, history>>
asset_vars == <<manifest, asset_dir>>
library_vars == <<music_vars, asset_vars>>

\* the state after MusicService.__init__ (lines 260-271) and after
\* AssetExtractor.__init__ (lines 37-60), both on an empty directory
LibraryAtRest ==
    /\ plans = Dict(<<>>)
    /\ storage_path = File(FALSE, "")
    /\ history = <<>>
    /\ manifest = <<>>
    /\ asset_dir = <<>>

\* no get_calendar_info call yet / no function examined
NoInfo == [pc |-> "idle"]
NoProbe == [fn |-> "none"]

\* the default ttl of _cache_set
DefaultTtl == 86400 * 7

FreeAnswers == [kind |-> "free", fs |-> "absent", resp |-> NoResponse]
FixedAnswers == {[kind |-> "fixed", fs |-> fsname, resp |-> resp] :
                    fsname \in FileSystemNames, resp \in Responses}

NoFrame ==
    [pc |-> "idle", dt |-> D1, day_name |-> None, cache_key |-> "",
     cached |-> None, data |-> "", get_failed |-> FALSE,
     follows |-> FALSE, late |-> FALSE,
     result |-> None, ret |-> None, exc |-> "", consulted |-> <<>>,
     set_failed |-> FALSE, fs_seen |-> "unseen", resp_seen |-> NoResponse,
     written |-> <<>>]

\* a function without the key k / with k set to v
Without(f, k) == [x \in DOMAIN f \ {k} |-> f[x]]
With(f, k, v) == [x \in DOMAIN f \cup {k} |-> IF x = k THEN v ELSE f[x]]

\* redis get: the text stored under key, "" for Python's None when the key is absent
RedisGet(st, key) == IF key \in DOMAIN st THEN st[key].val ELSE ""

\* faulty variant of RedisSetex: an entry that exists is kept (set-if-absent)
RedisSetnx(st, key, ttl, text) ==
    IF key \in DOMAIN st THEN st ELSE With(st, key, [val |-> text, ttl |-> ttl])

\* redis setex(key, ttl, text)
RedisSetex(st, key, ttl, text) == With(st, key, [val |-> text, ttl |-> ttl])

\* faulty variant of _cache_get: a failing get is not treated as a miss, the
\* entry is read on a second attempt
_cache_get_retry(client, st, key, fails) ==
    IF client = "none" THEN None
    ELSE IF RedisGet(st, key) = "" THEN None
    ELSE OrNone(json_loads(RedisGet(st, key)))

\* faulty variant of _cache_get: the parsed entry is never returned
_cache_get_miss(client, st, key, fails) == None

\* LectionaryService._cache_get(key); fails: redis_client.get raises
_cache_get(client, st, key, fails) ==
    IF client = "none" THEN None
    ELSE IF fails THEN None
    ELSE IF RedisGet(st, key) = "" THEN None
    ELSE OrNone(json_loads(RedisGet(st, key)))

\* faulty variant of _cache_set: the time-to-live is one day
_cache_set_one_day(client, st, key, data, fails) ==
    IF client = "none" THEN st
    ELSE IF fails THEN st
    ELSE With(st, key, [val |-> json_dumps(data), ttl |-> 86400])

\* LectionaryService._cache_set(key, data): the store afterwards; fails: setex raises
_cache_set(client, st, key, data, fails) ==
    IF client = "none" THEN st
    ELSE IF fails THEN st
    ELSE RedisSetex(st, key, DefaultTtl, json_dumps(data))

Consult(c, tier, hit) == Append(c.consulted, [tier |-> tier, hit |-> hit])

\* result = <the tier's lookup>
Took(c, tier, result) ==
    [c EXCEPT !.result = result, !.consulted = Consult(c, tier, Truthy(result))]

\* lines 303-304: tier 2, the local dataset
AfterTier2(c, path, fsname) ==
    [Took(c, "daily-office-json", DailyOfficeTable[path, c.dt, fsname])
        EXCEPT !.fs_seen = IF path = "" THEN "unseen" ELSE fsname]

\* faulty variant of AfterTier3: the remote service is asked whatever tier 2 found
AfterTier3_always(c, resp) ==
    [Took(c, "lectserve", LectserveTable[c.dt, resp]) EXCEPT !.resp_seen = resp]

\* lines 306-308: tier 3, the remote service
AfterTier3(c, resp) ==
    IF ~Truthy(c.result)
    THEN [Took(c, "lectserve", LectserveTable[c.dt, resp]) EXCEPT !.resp_seen = resp]
    ELSE c

\* faulty variant of AfterTier4: when every tier missed, the "none" value is
\* taken for the result
AfterTier4_none(c) ==
    LET d == IF ~Truthy(c.result) /\ Truthy(c.day_name)
             THEN Took(c, "builtin-year-a", BuiltinTable[c.day_name])
             ELSE c
    IN  IF Truthy(d.result) THEN d ELSE [d EXCEPT !.result = NotFound]

\* lines 310-312: tier 4, the built-in table
AfterTier4(c) ==
    IF ~Truthy(c.result) /\ Truthy(c.day_name)
    THEN Took(c, "builtin-year-a", BuiltinTable[c.day_name])
    ELSE c

\* the state after LectionaryService.__init__ (lines 180-199)
Init ==
    /\ LibraryAtRest
    /\ redis_client \in {"none", "client"}
    /\ daily_office_path \in Paths
    /\ store = <<>>
    /\ call = [p \in Callers |-> NoFrame]
    /\ started = 0
    /\ foreign = 0
    /\ answers = FreeAnswers
    /\ lastw = <<>>
    /\ estab = <<>>
    /\ prev = <<>>
    /\ HAS_LITURGICAL_PKG = FALSE
    /\ info = NoInfo
    /\ probe = NoProbe

\* a finished call is observed and released before anything else happens
Quiet == \A q \in Callers : call[q].pc \notin {"returned", "raised"}

Readings_of(v) == DictGet(v, "readings", None)

(***************************************************************************)
(* get_readings in two steps: up to the cache lookup, which reads the      *)
(* shared store, and from tier 2 to the write-back, which writes it.       *)
(* Tiers 2 to 4 touch nothing the callers share.                           *)
(***************************************************************************)
\* lines 295-297: the frame of a call for dt whose cache lookup gave cached
Enter(dt, name, fails, cached) ==
    [NoFrame EXCEPT
        !.dt = dt, !.day_name = name, !.cache_key = "rcl:" \o IsoformatTable[dt],
        !.cached = cached,
        !.consulted = <<[tier |-> "redis-cache", hit |-> Truthy(cached)]>>,
        !.get_failed = fails,
        !.data = IF redis_client = "client" /\ ~fails
                 THEN RedisGet(store, "rcl:" \o IsoformatTable[dt]) ELSE "",
        !.follows = ("rcl:" \o IsoformatTable[dt] \in DOMAIN prev),
        !.late = ("rcl:" \o IsoformatTable[dt] \in DOMAIN estab)]

\* lines 298-301: a hit is tagged and returned, a miss goes on to tier 2
Tier1(p, c) ==
    IF Truthy(c.cached)
    THEN IF c.cached.t = "dict"
         THEN call' = [call EXCEPT ![p] =
                 [c EXCEPT !.pc = "returned",
                           !.ret = SetItem(c.cached, "source", Str("redis-cache"))]]
         ELSE call' = [call EXCEPT ![p] = [c EXCEPT !.pc = "raised", !.exc = "TypeError"]]
    ELSE call' = [call EXCEPT ![p] = [c EXCEPT !.pc = "tier2"]]

\* lines 290-297: dt as a date, then the cache lookup under the key of dt
Normalised(p, name, fails, parsed) ==
    IF ~parsed.ok
    THEN /\ ~fails
         /\ call' = [call EXCEPT ![p] =
               [NoFrame EXCEPT !.pc = "raised", !.exc = "ValueError", !.day_name = name]]
    ELSE Tier1(p, Enter(parsed.date, name, fails,
                        _cache_get(redis_client, store,
                                   "rcl:" \o IsoformatTable[parsed.date], fails)))

\* lines 285-301: normalise dt, build the cache key, tier 1
Lookup(p, arg, name, fails) ==
    /\ Quiet
    /\ call[p].pc = "idle"
    /\ \A q \in Callers : q < p => call[q].pc # "idle"
    /\ started < MaxCalls
    /\ fails => redis_client = "client"
    /\ started' = started + 1
    /\ Normalised(p, name, fails,
                  IF arg.kind = "str" THEN StrptimeTable[arg.text]
                  ELSE [ok |-> TRUE, date |-> arg.date])
    /\ UNCHANGED <<redis_client, daily_office_path, store, foreign, answers,
                   lastw, estab, prev>>
    /\ UNCHANGED <<calendar_vars, library_vars>>

\* lines 314-318: a result is written back and returned; without one the
\* value of NotFound is returned
Finish(p, c, fails) ==
    IF Truthy(c.result)
    THEN /\ store' = _cache_set(redis_client, store, c.cache_key, c.result, fails)
         /\ call' = [call EXCEPT ![p] =
               [c EXCEPT !.pc = "returned", !.ret = c.result,
                         !.set_failed = fails,
                         !.written = IF redis_client = "client" /\ ~fails
                                     THEN <<[key |-> c.cache_key,
                                             ttl |-> store'[c.cache_key].ttl,
                                             val |-> store'[c.cache_key].val]>>
                                     ELSE <<>>]]
         /\ lastw' = IF redis_client = "client" /\ ~fails /\ c.cache_key = Watched
                     THEN With(lastw, c.cache_key, c.result)
                     ELSE lastw
         /\ estab' = IF /\ redis_client = "client" /\ ~fails /\ c.cache_key = Watched
                        /\ c.cache_key \notin DOMAIN estab
                     THEN With(estab, c.cache_key, Readings_of(c.result))
                     ELSE estab
    ELSE /\ ~fails
         /\ call' = [call EXCEPT ![p] = [c EXCEPT !.pc = "returned", !.ret = NotFound]]
         /\ UNCHANGED <<store, lastw, estab>>

\* lines 303-318: tiers 2 to 4, then write the result back and return it,
\* or return NotFound; resp is what the remote answers if it is asked
Resolve(p, fsname, resp, fails) ==
    /\ Quiet
    /\ call[p].pc = "tier2"
    /\ fails => redis_client = "client"
    /\ answers.kind = "fixed" => fsname = answers.fs /\ resp = answers.resp
    /\ Finish(p, AfterTier4(AfterTier3(AfterTier2(call[p], daily_office_path, fsname), resp)),
              fails)
    /\ UNCHANGED <<redis_client, daily_office_path, started, foreign, answers, prev>>
    /\ UNCHANGED <<calendar_vars, library_vars>>

\* the frames once caller p has left, its call having been one for key: a
\* call still in progress for that key no longer directly follows an earlier
\* one; the calls in progress stay in the order in which they started
Afresh(key, p) ==
    LET rest(q) == IF q \notin Callers THEN NoFrame
                   ELSE IF call[q].pc = "tier2" /\ call[q].cache_key = key
                        THEN [call[q] EXCEPT !.follows = FALSE]
                        ELSE call[q]
    IN  [q \in Callers |-> IF q < p THEN rest(q) ELSE rest(q + 1)]

\* the caller has its answer: the call becomes the latest for its key, and
\* the calls still in progress for that key no longer directly follow an
\* earlier one
Exit(p) ==
    /\ call[p].pc \in {"returned", "raised"}
    /\ LET f == call[p]
           key == f.cache_key
           names == IF answers.kind = "free" THEN {}
                    ELSE IF key \in DOMAIN prev THEN prev[key].names \cup {f.day_name}
                    ELSE {f.day_name}
       IN  /\ call' = Afresh(key, p)
           /\ prev' = IF key # Watched THEN prev
                      ELSE IF f.pc = "returned"
                      THEN With(prev, key,
                                [readings |-> Readings_of(f.ret),
                                 in_cache |-> (Truthy(f.cached) \/ f.written # <<>>),
                                 names |-> names])
                      ELSE Without(prev, key)
    /\ UNCHANGED <<redis_client, daily_office_path, store, started, foreign, answers,
                   lastw, estab>>
    /\ UNCHANGED <<calendar_vars, library_vars>>

(***************************************************************************)
(* The cache store's own behaviour.                                        *)
(***************************************************************************)
\* the histories of a key end when its entry is gone or replaced from outside
Forget(key) ==
    /\ lastw' = Without(lastw, key)
    /\ estab' = Without(estab, key)
    /\ prev' = Without(prev, key)
    /\ call' = [q \in Callers |->
                  IF call[q].pc = "tier2" /\ call[q].cache_key = key
                  THEN [call[q] EXCEPT !.follows = FALSE, !.late = FALSE]
                  ELSE call[q]]

\* the time-to-live of an entry runs out
Expire(key) ==
    /\ Quiet
    /\ key \in DOMAIN store
    /\ store' = Without(store, key)
    /\ Forget(key)
    /\ UNCHANGED <<redis_client, daily_office_path, started, foreign, answers>>
    /\ UNCHANGED <<calendar_vars, library_vars>>

\* another writer puts a payload of its own under a key of the service
ForeignWrite(key, text) ==
    /\ Quiet
    /\ foreign < MaxForeign
    /\ foreign' = foreign + 1
    /\ store' = RedisSetex(store, key, 0, text)
    /\ Forget(key)
    /\ UNCHANGED <<redis_client, daily_office_path, started, answers>>
    /\ UNCHANGED <<calendar_vars, library_vars>>

Next ==
    \/ \E p \in Callers, arg \in DtInputs, name \in DayNameInputs, fails \in BOOLEAN :
          Lookup(p, arg, name, fails)
    \/ \E p \in Callers, fsname \in FileSystemNames, resp \in Responses, fails \in BOOLEAN :
          Resolve(p, fsname, resp, fails)
    \/ \E p \in Callers : Exit(p)
    \/ \E key \in CacheKeys : Expire(key)

Spec == Init /\ [][Next]_vars

\* the cache store is shared with writers that are not this service
NextForeign ==
    \/ Next
    \/ \E key \in CacheKeys, text \in ForeignPayloads : ForeignWrite(key, text)

SpecForeign == Init /\ [][NextForeign]_vars

\* the dataset and the remote answer every caller alike
InitFixed ==
    /\ LibraryAtRest
    /\ redis_client \in {"none", "client"}
    /\ daily_office_path \in Paths
    /\ store = <<>>
    /\ call = [p \in Callers |-> NoFrame]
    /\ started = 0
    /\ foreign = 0
    /\ answers \in FixedAnswers \cup {FreeAnswers}
    /\ daily_office_path = "" => answers.fs = "absent"
    /\ lastw = <<>>
    /\ estab = <<>>
    /\ prev = <<>>
    /\ HAS_LITURGICAL_PKG = FALSE
    /\ info = NoInfo
    /\ probe = NoProbe

SpecFixed == InitFixed /\ [][Next]_vars

\* one caller, one call after the other, with the day names of the built-in tier
NextDayNames ==
    \/ \E arg \in DtInputs, name \in BuiltinNameInputs, fails \in BOOLEAN :
          Lookup(1, arg, name, fails)
    \/ \E fsname \in FileSystemNames, resp \in Responses, fails \in BOOLEAN :
          Resolve(1, fsname, resp, fails)
    \/ Exit(1)

SpecDayNames == Init /\ [][NextDayNames]_vars

(***************************************************************************)
(* _lookup_builtin on its own: the day name is drawn, the function is      *)
(* applied to it.                                                          *)
(***************************************************************************)
InitBuiltin ==
    /\ LibraryAtRest
    /\ redis_client = "none"
    /\ daily_office_path = ""
    /\ store = <<>>
    /\ call = [p \in Callers |-> NoFrame]
    /\ started = 0
    /\ foreign = 0
    /\ answers = FreeAnswers
    /\ lastw = <<>>
    /\ estab = <<>>
    /\ prev = <<>>
    /\ HAS_LITURGICAL_PKG = FALSE
    /\ info = NoInfo
    /\ probe \in {[fn |-> "_lookup_builtin", day_name |-> name, pc |-> "called"] :
                     name \in NameInputs}

Apply_lookup_builtin ==
    /\ probe.fn = "_lookup_builtin"
    /\ probe.pc = "called"
    /\ probe' = [fn |-> "_lookup_builtin", day_name |-> probe.day_name, pc |-> "returned",
                 ret |-> _lookup_builtin(probe.day_name)]
    /\ UNCHANGED <<service_vars, library_vars, HAS_LITURGICAL_PKG, info>>

SpecBuiltin == InitBuiltin /\ [][Apply_lookup_builtin]_vars

(***************************************************************************)
(* _computus and _first_sunday_of_advent on their own: the year is drawn,  *)
(* either function is applied to it.                                       *)
(***************************************************************************)
\* the last year examined (datetime.date knows the years up to 9999); the
\* first is 1583, the first full year of the Gregorian calendar
LastYear == 9998
Years == 1583..LastYear

\* the service of the lectionary as it is constructed without cache and dataset
ServiceAtRest ==
    /\ redis_client = "none"
    /\ daily_office_path = ""
    /\ store = <<>>
    /\ call = [p \in Callers |-> NoFrame]
    /\ started = 0
    /\ foreign = 0
    /\ answers = FreeAnswers
    /\ lastw = <<>>
    /\ estab = <<>>
    /\ prev = <<>>

InitYears ==
    /\ LibraryAtRest
    /\ ServiceAtRest
    /\ HAS_LITURGICAL_PKG = FALSE
    /\ info = NoInfo
    /\ probe \in {[fn |-> "year", year |-> y, pc |-> "called"] : y \in Years}

Apply_computus ==
    /\ probe.fn = "year"
    /\ probe' = [fn |-> "_computus", year |-> probe.year, pc |-> "returned",
                 ret |-> _computus(probe.year)]
    /\ UNCHANGED <<service_vars, library_vars, HAS_LITURGICAL_PKG, info>>

Apply_first_sunday_of_advent ==
    /\ probe.fn = "year"
    /\ probe' = [fn |-> "_first_sunday_of_advent", year |-> probe.year, pc |-> "returned",
                 ret |-> _first_sunday_of_advent(probe.year)]
    /\ UNCHANGED <<service_vars, library_vars, HAS_LITURGICAL_PKG, info>>

NextYears == Apply_computus \/ Apply_first_sunday_of_advent

SpecYears == InitYears /\ [][NextYears]_vars

(***************************************************************************)
(* The functions of a date: the two cycles on their own, and               *)
(* get_calendar_info with the calendar authority installed or not.         *)
(***************************************************************************)
\* the last year whose dates are examined; the first is 2022, a year whose
\* December 25 is a Sunday
LastCalendarYear == 2026
CalendarDates ==
    {dt \in {Date(y, m, d) : y \in 2022..LastCalendarYear, m \in 1..12, d \in 1..31} :
        dt.day <= DaysInMonth(dt.year, dt.month)}

InitDates ==
    /\ LibraryAtRest
    /\ ServiceAtRest
    /\ HAS_LITURGICAL_PKG = FALSE
    /\ info = NoInfo
    /\ probe \in {[fn |-> "date", dt |-> dt, pc |-> "called"] : dt \in CalendarDates}

Apply_calculate_rcl_year ==
    /\ probe.fn = "date"
    /\ probe' = [fn |-> "calculate_rcl_year", dt |-> probe.dt, pc |-> "returned",
                 ret |-> calculate_rcl_year(probe.dt)]
    /\ UNCHANGED <<service_vars, library_vars, HAS_LITURGICAL_PKG, info>>

Apply_calculate_lectionary_year ==
    /\ probe.fn = "date"
    /\ probe' = [fn |-> "calculate_lectionary_year", dt |-> probe.dt, pc |-> "returned",
                 ret |-> calculate_lectionary_year(probe.dt)]
    /\ UNCHANGED <<service_vars, library_vars, HAS_LITURGICAL_PKG, info>>

\* lines 228-232 of _lookup_daily_office applied to the date
Apply_DailyOfficeFilename ==
    /\ probe.fn = "date"
    /\ probe' = [fn |-> "DailyOfficeFilename", dt |-> probe.dt, pc |-> "returned",
                 ret |-> DailyOfficeFilename(probe.dt)]
    /\ UNCHANGED <<service_vars, library_vars, HAS_LITURGICAL_PKG, info>>

NextDates ==
    \/ Apply_calculate_rcl_year
    \/ Apply_calculate_lectionary_year
    \/ Apply_DailyOfficeFilename

SpecDates == InitDates /\ [][NextDates]_vars

(***************************************************************************)
(* _lookup_daily_office on its own: the date and the state of the two      *)
(* documents are drawn, the function is applied to them.                   *)
(***************************************************************************)
\* the dates around the change of the document and around the new year, in
\* an odd and in an even year
OfficeDates ==
    {Date(y, 11, d) : y \in {2025, 2026}, d \in 20..30}
    \cup {Date(y, 12, d) : y \in {2025, 2026}, d \in 1..10}
    \cup {Date(y, 1, d) : y \in {2025, 2026}, d \in 1..10}

\* the records of a document tagged with tag: two records for November 27,
\* a record whose day is written with a leading zero, one for January 5, one
\* for December 5
OfficeRecords(tag) ==
    <<Dict(<< <<"day", Str("November 27")>>, <<"psalm", Str(tag \o " first")>> >>),
      Dict(<< <<"day", Str("January 05")>>, <<"psalm", Str(tag \o " padded")>> >>),
      Dict(<< <<"day", Str("January 5")>>, <<"psalm", Str(tag \o " new year")>> >>),
      Dict(<< <<"day", Str("November 27")>>, <<"psalm", Str(tag \o " second")>> >>),
      Dict(<< <<"psalm", Str(tag \o " no day")>> >>),
      Dict(<< <<"day", Str("December 5")>>, <<"psalm", Str(tag \o " december")>> >>)>>

\* both documents present with their records / only year-two present
FsFull ==
    [f \in {"year-one.json", "year-two.json"} |->
        IF f = "year-one.json" THEN File(TRUE, Dumps(List(OfficeRecords("one"))))
        ELSE File(TRUE, Dumps(List(OfficeRecords("two"))))]
FsTwoOnly ==
    [f \in {"year-one.json", "year-two.json"} |->
        IF f = "year-one.json" THEN File(FALSE, "")
        ELSE File(TRUE, Dumps(List(OfficeRecords("two"))))]
OfficeFileSystems == {FsAbsent, FsCorrupt, FsOk, FsFull, FsTwoOnly}

InitDailyOffice ==
    /\ LibraryAtRest
    /\ ServiceAtRest
    /\ HAS_LITURGICAL_PKG = FALSE
    /\ info = NoInfo
    /\ probe \in {[fn |-> "_lookup_daily_office", dt |-> dt, fs |-> fs, pc |-> "called"] :
                     dt \in OfficeDates, fs \in OfficeFileSystems}

Apply_lookup_daily_office ==
    /\ probe.fn = "_lookup_daily_office"
    /\ probe.pc = "called"
    /\ probe' = [probe EXCEPT !.pc = "returned"]
    /\ info' = [pc |-> "idle",
                ret |-> _lookup_daily_office("/app/data/daily-office", probe.dt, probe.fs)]
    /\ UNCHANGED <<service_vars, library_vars, HAS_LITURGICAL_PKG>>

SpecDailyOffice == InitDailyOffice /\ [][Apply_lookup_daily_office]_vars

\* the dt argument of get_calendar_info: every date examined, and strings
CalendarArgs ==
    {DateArg("date", dt, "") : dt \in CalendarDates}
    \cup {DateArg("str", Date(2026, 1, 25), "2026-01-25"),
          DateArg("str", Date(2025, 12, 25), "2025-12-25"),
          DateArg("str", Date(2026, 2, 28), "2026-02-30")}

\* the state after calendar_service is imported (lines 13-19)
InitCalendar ==
    /\ LibraryAtRest
    /\ ServiceAtRest
    /\ HAS_LITURGICAL_PKG \in BOOLEAN
    /\ info = NoInfo
    /\ probe = NoProbe

\* lines 161-164, then the rest of get_calendar_info for the date
Normalised_info(arg, answer, parsed) ==
    IF ~parsed.ok
    THEN [pc |-> "raised", exc |-> "ValueError", arg |-> arg, answer |-> NotInstalled]
    ELSE [pc |-> "returned", arg |-> arg, dt |-> parsed.date, answer |-> answer,
          ret |-> get_calendar_info(parsed.date, HAS_LITURGICAL_PKG, answer)]

\* a call of get_calendar_info(dt); answer is what the authority does if asked
Call_get_calendar_info(arg, answer) ==
    /\ info.pc = "idle"
    /\ HAS_LITURGICAL_PKG <=> answer # NotInstalled
    /\ info' = Normalised_info(arg, answer,
                               IF arg.kind = "str" THEN strptime(arg.text)
                               ELSE [ok |-> TRUE, date |-> arg.date])
    /\ UNCHANGED <<service_vars, library_vars, HAS_LITURGICAL_PKG, probe>>

\* the caller has its answer
Exit_get_calendar_info ==
    /\ info.pc \in {"returned", "raised"}
    /\ info' = NoInfo
    /\ UNCHANGED <<service_vars, library_vars, HAS_LITURGICAL_PKG, probe>>

NextCalendar ==
    \/ \E arg \in CalendarArgs, answer \in AuthorityAnswers \cup {NotInstalled} :
          Call_get_calendar_info(arg, answer)
    \/ Exit_get_calendar_info

SpecCalendar == InitCalendar /\ [][NextCalendar]_vars
(***************************************************************************)
(* Properties of get_readings.  A call that has finished is the frame of a *)
(* caller whose pc is "returned" or "raised"; it is looked at in the state *)
(* between its last step and Exit.                                         *)
(***************************************************************************)
Source_of(v) == DictGet(v, "source", None)

(***************************************************************************)
(* _map_episcopal_name on its own: the authority's season, week number and *)
(* name are drawn, the function is applied to them.                        *)
(***************************************************************************)
MaxWeek == 12

\* the seasons of the authority's vocabulary that SEASON_MAP translates
AuthoritySeasons ==
    {"Advent", "Christmas", "Epiphany", "before Lent", "Lent", "Easter", "Pentecost",
     "before Advent", "Ordinary Time"}

\* names the authority gives a day: none, the feast of the Epiphany in both
\* spellings, Christmas Day, a Sunday
AuthorityNames == {"", "Epiphany", "The Epiphany", "Christmas Day", "Lent 3"}

InitNames ==
    /\ LibraryAtRest
    /\ ServiceAtRest
    /\ HAS_LITURGICAL_PKG = TRUE
    /\ info = NoInfo
    /\ probe \in {[fn |-> "_map_episcopal_name", season |-> season, weekno |-> weekno,
                    cal_name |-> cal_name, pc |-> "called"] :
                     season \in AuthoritySeasons, weekno \in 0..MaxWeek,
                     cal_name \in AuthorityNames}

Apply_map_episcopal_name ==
    /\ probe.fn = "_map_episcopal_name"
    /\ probe.pc = "called"
    /\ probe' = [probe EXCEPT !.pc = "returned"]
    /\ info' = [pc |-> "idle",
                ret |-> _map_episcopal_name(Str(probe.season), Num(probe.weekno),
                                            Str(probe.cal_name))]
    /\ UNCHANGED <<service_vars, library_vars, HAS_LITURGICAL_PKG>>

SpecNames == InitNames /\ [][Apply_map_episcopal_name]_vars

(***************************************************************************)
(* _lookup_builtin applied to the day names get_calendar_info produces.    *)
(***************************************************************************)
\* the day names of the authority path (lines 127-150, the authority naming
\* the day or not) and the bare season names of the built-in path (line 215)
ProducedNames ==
    {_map_episcopal_name(Str(season), Num(weekno), Str(cal_name)).v.s :
        season \in AuthoritySeasons, weekno \in 0..MaxWeek, cal_name \in {"", "The Epiphany"}}
    \cup {"Advent", "Christmas", "The Season after the Epiphany", "Lent", "Easter",
          "The Season after Pentecost"}

InitProduced ==
    /\ LibraryAtRest
    /\ ServiceAtRest
    /\ HAS_LITURGICAL_PKG = FALSE
    /\ info = NoInfo
    /\ probe \in {[fn |-> "_lookup_builtin", day_name |-> Str(name), pc |-> "called"] :
                     name \in ProducedNames}

SpecProduced == InitProduced /\ [][Apply_lookup_builtin]_vars

(***************************************************************************)
(* The two endpoints of app.py over the calendar and the lectionary        *)
(* service, with direct calls of get_readings and get_calendar_info beside *)
(* them.  An endpoint is a coroutine that awaits nothing: it runs from the *)
(* request to the response in one step.  probe is the last exchange.       *)
(***************************************************************************)
\* raise HTTPException(status_code=400, detail="Invalid date. Use YYYY-MM-DD.")
BadRequest(fn, date_str) ==
    [fn |-> fn, date_str |-> date_str, pc |-> "responded", status_code |-> 400,
     body |-> Dict(<< <<"detail", Str("Invalid date. Use YYYY-MM-DD.")>> >>)]

\* the response that carries the handler's return value
Answered(fn, date_str, body) ==
    [fn |-> fn, date_str |-> date_str, pc |-> "responded", status_code |-> 200,
     body |-> body]

\* number of lookups of readings in a behaviour of the endpoints
MaxRequests == 2

\* no request is being served and no direct call is under way: the
\* coroutines and the direct calls run on one thread
AtRest == probe = NoProbe /\ info = NoInfo /\ Quiet

\* the response has been sent
Sent ==
    /\ probe.fn # "none"
    /\ Quiet
    /\ probe' = NoProbe
    /\ UNCHANGED <<service_vars, library_vars, HAS_LITURGICAL_PKG, info>>

\* what the authority does in these exchanges
EndpointAnswers ==
    {NotInstalled, AuthorityRaises,
     AuthorityReturns(Dict(<< <<"season", Str("Lent")>>, <<"weekno", Num(3)>>,
                              <<"name", Str("Lent 3")>> >>))}

\* a direct call of get_readings from the thread of the endpoints
Direct_get_readings(arg, name, fails) ==
    /\ AtRest
    /\ started < MaxRequests
    /\ Lookup(1, arg, name, fails)

\* the state after app.py has built its services
InitEndpoints ==
    /\ LibraryAtRest
    /\ redis_client \in {"none", "client"}
    /\ daily_office_path \in Paths
    /\ store = <<>>
    /\ call = [p \in Callers |-> NoFrame]
    /\ started = 0
    /\ foreign = 0
    /\ answers = FreeAnswers
    /\ lastw = <<>>
    /\ estab = <<>>
    /\ prev = <<>>
    /\ HAS_LITURGICAL_PKG \in BOOLEAN
    /\ info = NoInfo
    /\ probe = NoProbe

\* line 386 from the cache lookup on, and line 387: c is the frame of the
\* call of get_readings after its cache lookup
ReadingsReturned(date_str, dt, cal, c, fsname, resp, set_fails) ==
    /\ IF Truthy(c.cached)
       THEN /\ ~set_fails
            /\ Tier1(1, c)
            /\ UNCHANGED <<store, lastw, estab>>
       ELSE Finish(1, AfterTier4(AfterTier3(AfterTier2(c, daily_office_path, fsname), resp)),
                   set_fails)
    /\ probe' = Answered("get_lectionary", date_str,
                   Dict(<< <<"date", Str(IsoformatTable[dt])>>,
                           <<"calendar", cal>>,
                           <<"readings", call'[1].ret>> >>))

\* line 386: get_readings(dt, day_name=cal.get("day_name")) up to its cache lookup
CalendarReturned(date_str, dt, cal, fsname, resp, get_fails, set_fails) ==
    ReadingsReturned(date_str, dt, cal,
                     Enter(dt, DictGet(cal, "day_name", None), get_fails,
                           _cache_get(redis_client, store, "rcl:" \o IsoformatTable[dt],
                                      get_fails)),
                     fsname, resp, set_fails)

\* GET /api/lectionary/{date_str} (lines 376-387); the handler is caller 1
\* of the lectionary service
get_lectionary(date_str, answer, fsname, resp, get_fails, set_fails) ==
    /\ AtRest
    /\ call[1].pc = "idle"
    /\ HAS_LITURGICAL_PKG <=> answer # NotInstalled
    /\ (get_fails \/ set_fails) => redis_client = "client"
    /\ IF ~StrptimeTable[date_str].ok
       THEN /\ probe' = BadRequest("get_lectionary", date_str)
            /\ UNCHANGED <<store, call, started, lastw, estab>>
       ELSE /\ started < MaxRequests
            /\ started' = started + 1
            /\ CalendarReturned(date_str, StrptimeTable[date_str].date,
                                CalendarTable[StrptimeTable[date_str].date, answer],
                                fsname, resp, get_fails, set_fails)
    /\ UNCHANGED <<redis_client, daily_office_path, foreign, answers, prev,
                   HAS_LITURGICAL_PKG, info, library_vars>>

\* GET /api/calendar/{date_str} (lines 390-399)
get_calendar(date_str, answer) ==
    /\ AtRest
    /\ HAS_LITURGICAL_PKG <=> answer # NotInstalled
    /\ probe' = IF ~StrptimeTable[date_str].ok THEN BadRequest("get_calendar", date_str)
                ELSE Answered("get_calendar", date_str,
                              CalendarTable[StrptimeTable[date_str].date, answer])
    /\ UNCHANGED <<service_vars, library_vars, HAS_LITURGICAL_PKG, info>>

\* get_calendar_info(dt) called directly with a str
Direct_get_calendar_info(arg, answer) ==
    /\ AtRest
    /\ HAS_LITURGICAL_PKG <=> answer # NotInstalled
    /\ LET parsed == IF arg.kind = "str" THEN StrptimeTable[arg.text]
                     ELSE [ok |-> TRUE, date |-> arg.date]
       IN  info' = IF ~parsed.ok
                   THEN [pc |-> "raised", exc |-> "ValueError", arg |-> arg,
                         answer |-> NotInstalled]
                   ELSE [pc |-> "returned", arg |-> arg, dt |-> parsed.date,
                         answer |-> answer, ret |-> CalendarTable[parsed.date, answer]]
    /\ UNCHANGED <<service_vars, library_vars, HAS_LITURGICAL_PKG, probe>>

NextEndpoints ==
    \/ \E date_str \in DateStrings, answer \in EndpointAnswers,
          fsname \in FileSystemNames, resp \in Responses, get_fails, set_fails \in BOOLEAN :
          get_lectionary(date_str, answer, fsname, resp, get_fails, set_fails)
    \/ \E date_str \in DateStrings, answer \in EndpointAnswers :
          get_calendar(date_str, answer)
    \/ Sent
    \/ \E date_str \in DateStrings, answer \in EndpointAnswers :
          Direct_get_calendar_info(DateArg("str", D1, date_str), answer)
    \/ Exit_get_calendar_info
    \/ \E date_str \in DateStrings, name \in DayNameInputs, fails \in BOOLEAN :
          Direct_get_readings(DateArg("str", D1, date_str), name, fails)
    \/ \E fsname \in FileSystemNames, resp \in Responses, fails \in BOOLEAN :
          Resolve(1, fsname, resp, fails)
    \/ Exit(1)
    \/ \E key \in CacheKeys : Expire(key)

SpecEndpoints == InitEndpoints /\ [][NextEndpoints]_vars

(***************************************************************************)
(* bulletin-backend/modules/music_service.py: the service music table,     *)
(* MusicPlan and MusicService.  The service is constructed without a       *)
(* redis client.                                                           *)
(***************************************************************************)
SERVICE_MUSIC ==
    Dict(<<
      <<"S 86", Dict(<< <<"title", Str("Kyrie eleison")>>,
                        <<"setting", Str("Missa de Sancta Maria Magdalena")>>, <<"composer", Str("Healey Willan")>>, <<"type", Str("kyrie")>> >>)>>,
      <<"S 91", Dict(<< <<"title", Str("Kyrie eleison")>>,
                        <<"setting", Str("Franz Schubert")>>, <<"composer", Str("Franz Schubert")>>, <<"type", Str("kyrie")>> >>)>>,
      <<"S 96", Dict(<< <<"title", Str("Lord, have mercy upon us")>>,
                        <<"setting", Str("New Plainsong")>>, <<"composer", Str("David Hurd")>>, <<"type", Str("kyrie")>> >>)>>,
      <<"S 201", Dict(<< <<"title", Str("Gloria in excelsis")>>,
                        <<"setting", Str("Plainsong")>>, <<"composer", Str("Plainsong")>>, <<"type", Str("gloria")>> >>)>>,
      <<"S 202", Dict(<< <<"title", Str("Gloria in excelsis")>>,
                        <<"setting", Str("Plainsong")>>, <<"composer", Str("Plainsong")>>, <<"type", Str("gloria")>> >>)>>,
      <<"S 204", Dict(<< <<"title", Str("Gloria in excelsis")>>,
                        <<"setting", Str("Missa de Sancta Maria Magdalena")>>, <<"composer", Str("Healey Willan")>>, <<"type", Str("gloria")>> >>)>>,
      <<"S 277", Dict(<< <<"title", Str("Gloria in excelsis")>>,
                        <<"setting", Str("New Plainsong")>>, <<"composer", Str("David Hurd")>>, <<"type", Str("gloria")>> >>)>>,
      <<"S 278", Dict(<< <<"title", Str("Gloria in excelsis")>>,
                        <<"setting", Str("Mathias")>>, <<"composer", Str("William Mathias")>>, <<"type", Str("gloria")>> >>)>>,
      <<"S 280", Dict(<< <<"title", Str("Gloria in excelsis")>>,
                        <<"setting", Str("Powell")>>, <<"composer", Str("Robert Powell")>>, <<"type", Str("gloria")>> >>)>>,
      <<"S 99", Dict(<< <<"title", Str("Holy God, Holy and Mighty")>>,
                        <<"setting", Str("Trisagion")>>, <<"composer", Str("Alexander Archangelsky")>>, <<"type", Str("trisagion")>> >>)>>,
      <<"S 100", Dict(<< <<"title", Str("Trisagion")>>,
                        <<"setting", Str("New Plainsong")>>, <<"composer", Str("David Hurd")>>, <<"type", Str("trisagion")>> >>)>>,
      <<"S 102", Dict(<< <<"title", Str("Trisagion")>>,
                        <<"setting", Str("Byzantine chant")>>, <<"composer", Str("Plainsong")>>, <<"type", Str("trisagion")>> >>)>>,
      <<"S 113", Dict(<< <<"title", Str("Holy, holy, holy Lord")>>,
                        <<"setting", Str("Plainsong")>>, <<"composer", Str("Plainsong")>>, <<"type", Str("sanctus")>> >>)>>,
      <<"S 114", Dict(<< <<"title", Str("Holy, holy, holy Lord")>>,
                        <<"setting", Str("Healey Willan")>>, <<"composer", Str("Healey Willan")>>, <<"type", Str("sanctus")>> >>)>>,
      <<"S 124", Dict(<< <<"title", Str("Holy, holy, holy Lord")>>,
                        <<"setting", Str("New Plainsong")>>, <<"composer", Str("David Hurd")>>, <<"type", Str("sanctus")>> >>)>>,
      <<"S 125", Dict(<< <<"title", Str("Holy, holy, holy Lord")>>,
                        <<"setting", Str("Proulx")>>, <<"composer", Str("Richard Proulx")>>, <<"type", Str("sanctus")>> >>)>>,
      <<"S 128", Dict(<< <<"title", Str("Holy, holy, holy Lord")>>,
                        <<"setting", Str("Mathias")>>, <<"composer", Str("William Mathias")>>, <<"type", Str("sanctus")>> >>)>>,
      <<"S 129", Dict(<< <<"title", Str("Holy, holy, holy Lord")>>,
                        <<"setting", Str("Powell")>>, <<"composer", Str("Robert Powell")>>, <<"type", Str("sanctus")>> >>)>>,
      <<"S 130", Dict(<< <<"title", Str("Holy, holy, holy Lord")>>,
                        <<"setting", Str("Schubert/Proulx")>>, <<"composer", Str("Franz Schubert, arr. Richard Proulx")>>, <<"type", Str("sanctus")>> >>)>>,
      <<"S 151", Dict(<< <<"title", Str("Christ our Passover")>>,
                        <<"setting", Str("Plainsong")>>, <<"composer", Str("Plainsong")>>, <<"type", Str("fraction")>> >>)>>,
      <<"S 152", Dict(<< <<"title", Str("Christ our Passover")>>,
                        <<"setting", Str("Ambrosian chant")>>, <<"composer", Str("Plainsong")>>, <<"type", Str("fraction")>> >>)>>,
      <<"S 154", Dict(<< <<"title", Str("Christ our Passover")>>,
                        <<"setting", Str("New Plainsong")>>, <<"composer", Str("David Hurd")>>, <<"type", Str("fraction")>> >>)>>,
      <<"S 155", Dict(<< <<"title", Str("Christ our Passover")>>,
                        <<"setting", Str("Near")>>, <<"composer", Str("Gerald Near")>>, <<"type", Str("fraction")>> >>)>>,
      <<"S 158", Dict(<< <<"title", Str("O Lamb of God")>>,
                        <<"setting", Str("Agnus Dei (Healey Willan)")>>, <<"composer", Str("Healey Willan")>>, <<"type", Str("fraction")>> >>)>>,
      <<"S 161", Dict(<< <<"title", Str("O Lamb of God")>>,
                        <<"setting", Str("New Plainsong")>>, <<"composer", Str("David Hurd")>>, <<"type", Str("fraction")>> >>)>>,
      <<"S 163", Dict(<< <<"title", Str("O Lamb of God")>>,
                        <<"setting", Str("Powell")>>, <<"composer", Str("Robert Powell")>>, <<"type", Str("fraction")>> >>)>>,
      <<"S 164", Dict(<< <<"title", Str("Jesus, Lamb of God")>>,
                        <<"setting", Str("Schubert/Proulx")>>, <<"composer", Str("Franz Schubert, arr. Richard Proulx")>>, <<"type", Str("fraction")>> >>)>>,
      <<"S 167", Dict(<< <<"title", Str("The disciples knew the Lord Jesus")>>,
                        <<"setting", Str("Mode 6 melody")>>, <<"composer", Str("Plainsong")>>, <<"type", Str("fraction")>> >>)>>,
      <<"S 169", Dict(<< <<"title", Str("My flesh is food indeed")>>,
                        <<"setting", Str("Mode 1 melody")>>, <<"composer", Str("Plainsong")>>, <<"type", Str("fraction")>> >>)>>,
      <<"S 171", Dict(<< <<"title", Str("Be known to us, Lord Jesus")>>,
                        <<"setting", Str("Mode 6 melody")>>, <<"composer", Str("Plainsong")>>, <<"type", Str("fraction")>> >>)>>,
      <<"S 172", Dict(<< <<"title", Str("Christ our Passover")>>,
                        <<"setting", Str("Martens")>>, <<"composer", Str("Edmund Martens")>>, <<"type", Str("fraction")>> >>)>>,
      <<"S 112", Dict(<< <<"title", Str("The Lord be with you / Lift up your hearts")>>,
                        <<"setting", Str("Plainsong")>>, <<"composer", Str("Plainsong")>>, <<"type", Str("sursum_corda")>> >>)>>,
      <<"S 120", Dict(<< <<"title", Str("Sursum Corda")>>,
                        <<"setting", Str("Willan")>>, <<"composer", Str("Healey Willan")>>, <<"type", Str("sursum_corda")>> >>)>>,
      <<"S 176", Dict(<< <<"title", Str("Amen (Dresden)")>>,
                        <<"setting", Str("Dresden Amen")>>, <<"composer", Str("J.G. Naumann")>>, <<"type", Str("amen")>> >>)>>,
      <<"S 142", Dict(<< <<"title", Str("Amen (McNeil Robinson)")>>,
                        <<"setting", Str("Robinson")>>, <<"composer", Str("McNeil Robinson")>>, <<"type", Str("amen")>> >>)>>,
      <<"S 133", Dict(<< <<"title", Str("Christ has died")>>,
                        <<"setting", Str("Plainsong")>>, <<"composer", Str("Plainsong")>>, <<"type", Str("memorial_acclamation")>> >>)>>,
      <<"S 135", Dict(<< <<"title", Str("Christ has died")>>,
                        <<"setting", Str("New Plainsong")>>, <<"composer", Str("David Hurd")>>, <<"type", Str("memorial_acclamation")>> >>)>>,
      <<"S 138", Dict(<< <<"title", Str("Christ has died")>>,
                        <<"setting", Str("Mathias")>>, <<"composer", Str("William Mathias")>>, <<"type", Str("memorial_acclamation")>> >>)>> >>)

UpperChar(c) ==
    IF \E i \in 1..26 : SubSeq(Lower, i, i) = c
    THEN LET i == CHOOSE j \in 1..26 : SubSeq(Lower, j, j) = c IN SubSeq(Upper, i, i)
    ELSE c

\* str.upper()
RECURSIVE upper(_)
upper(s) == IF s = "" THEN "" ELSE UpperChar(SubSeq(s, 1, 1)) \o upper(SubSeq(s, 2, Len(s)))

\* lines 109-113 of lookup_service_music: the S-number in the table's form;
\* s[1] raises IndexError on a text of one character
NormalisedNumber(s_number) ==
    LET s == upper(strip(s_number))
        t == IF ~StartsAt(s, 1, "S") THEN "S " \o s ELSE s
    IN  IF Len(t) < 2 THEN Raised
        ELSE IF SubSeq(t, 2, 2) # " " THEN Returned(Str("S " \o SubSeq(t, 2, Len(t))))
        ELSE Returned(Str(t))

\* lookup_service_music(s_number)
lookup_service_music(s_number) ==
    LET s == NormalisedNumber(s_number)
    IN  IF ~s.ok THEN Raised
        ELSE IF HasKey(SERVICE_MUSIC, s.v.s)
        THEN Returned(SetItem(GetItem(SERVICE_MUSIC, s.v.s), "s_number", s.v))
        ELSE Returned(None)

\* the parameters of MusicPlan.__init__ with their defaults, in the order
\* in which __init__ assigns them
PlanFields ==
    << <<"service_date", None>>, <<"service_type", Str("Holy Eucharist Rite II")>>,
       <<"opening_hymn", Str("")>>, <<"sequence_hymn", Str("")>>,
       <<"offertory_hymn", Str("")>>, <<"communion_hymn_1", Str("")>>,
       <<"communion_hymn_2", Str("")>>, <<"closing_hymn", Str("")>>,
       <<"gloria", Str("")>>, <<"kyrie", Str("")>>, <<"trisagion", Str("")>>,
       <<"sanctus", Str("")>>, <<"fraction", Str("")>>,
       <<"memorial_acclamation", Str("")>>, <<"sursum_corda", Str("")>>,
       <<"amen", Str("")>>, <<"anthem_title", Str("")>>, <<"anthem_composer", Str("")>>,
       <<"anthem_voicing", Str("")>>, <<"prelude_title", Str("")>>,
       <<"prelude_composer", Str("")>>, <<"postlude_title", Str("")>>,
       <<"postlude_composer", Str("")>>, <<"communion_voluntary", Str("")>>,
       <<"soloist", Str("")>>, <<"instrumentalists", Str("")>>,
       <<"musician_notes", Str("")>> >>

\* MusicPlan(**kwargs): the object's __dict__
MusicPlan(kwargs) ==
    Dict([i \in 1..Len(PlanFields) |->
            <<PlanFields[i][1], DictGet(kwargs, PlanFields[i][1], PlanFields[i][2])>>])

\* MusicPlan.to_dict()
to_dict(plan) == Dict(SelectSeq(plan.kv, LAMBDA pair : Truthy(pair[2])))

\* the fields enrich_service_music resolves, in its order
ServiceMusicFields ==
    <<"gloria", "kyrie", "trisagion", "sanctus", "fraction", "memorial_acclamation",
      "sursum_corda", "amen">>

\* resolved[position] for an S-number that lookup_service_music takes
ResolvedInfo(position, s_number, found) ==
    IF Truthy(found) THEN found
    ELSE Dict(<< <<"s_number", s_number>>,
                 <<"title", Str("(S-number " \o s_number.s \o " not found)")>>,
                 <<"type", Str(position)>> >>)

\* resolved after the loop over the positions that are set, none of whose
\* lookups raises
ResolvedAt(plan, positions) ==
    Dict([i \in 1..Len(positions) |->
            <<positions[i],
              ResolvedInfo(positions[i], GetItem(plan, positions[i]),
                           lookup_service_music(GetItem(plan, positions[i]).s).v)>>])

\* the loop of enrich_service_music over the positions that are set
Resolved(plan, positions) ==
    IF \E i \in 1..Len(positions) :
           ~lookup_service_music(GetItem(plan, positions[i]).s).ok
    THEN Raised
    ELSE Returned(ResolvedAt(plan, positions))

\* MusicPlan.enrich_service_music()
enrich_service_music(plan) ==
    Resolved(plan, SelectSeq(ServiceMusicFields, LAMBDA position :
                                 Truthy(GetItem(plan, position))))

\* lines 290-291 of save_plan: the data saved for the plan
PlanData(plan) ==
    LET enriched == enrich_service_music(plan)
    IN  IF ~enriched.ok THEN Raised
        ELSE Returned(SetItem(to_dict(plan), "enriched_service_music", enriched.v))

\* faulty variant of DelItem: the entry stays
DelItem_none(v, k) == v

\* del d[k] on a dict that has the key k
DelItem(v, k) == Dict(SelectSeq(v.kv, LAMBDA pair : pair[1] # k))

\* number of save_plan and delete_plan calls in a behaviour
MaxMusicCalls == 4

\* the service dates of the plans
MusicDates == {"2026-02-15", "2026-02-22"}

\* the keyword arguments of the plans that are saved: two plans for each
\* date, a plan without a date, one with an empty date, and one whose
\* gloria is the single letter S
PlanInputs ==
    {Dict(<< <<"service_date", Str(d)>>, <<"opening_hymn", Str("390")>>,
             <<"gloria", Str("s280")>> >>) : d \in MusicDates}
    \cup {Dict(<< <<"service_date", Str(d)>>, <<"sanctus", Str("S 999")>> >>) :
              d \in MusicDates}
    \cup {Dict(<< <<"opening_hymn", Str("390")>> >>),
          Dict(<< <<"service_date", Str("")>>, <<"opening_hymn", Str("390")>> >>),
          Dict(<< <<"service_date", Str("2026-02-15")>>, <<"gloria", Str("S")>> >>)}

\* the data of these plans, tabulated once
PlanTable == [kwargs \in PlanInputs |-> PlanData(MusicPlan(kwargs))]

\* the data saved for the date d
DataOf(d) ==
    {PlanTable[kwargs].v : kwargs \in {k \in PlanInputs :
        PlanTable[k].ok /\ DictGet(k, "service_date", None) = Str(d)}}

\* the values of MusicService.plans: no date, one date, both in either order
AllPlans ==
    {Dict(<<>>)}
    \cup UNION {{Dict(<< <<d, x>> >>) : x \in DataOf(d)} : d \in MusicDates}
    \cup UNION {{Dict(<< <<d[1], x>>, <<d[2], y>> >>) : x \in DataOf(d[1]), y \in DataOf(d[2])} :
                   d \in {e \in MusicDates \X MusicDates : e[1] # e[2]}}

\* json.dump(self.plans, f) and json.load(f), tabulated once; the text is
\* written without the indentation, which json.load skips
MusicDumps == [p \in AllPlans |-> Dumps(p)]
MusicLoads == [text \in {MusicDumps[p] : p \in AllPlans} |-> Loads(text)]

\* the other variables of the module are left alone
MusicOnly == UNCHANGED <<service_vars, HAS_LITURGICAL_PKG, info, asset_vars>>

\* MusicService.save_plan(MusicPlan(**kwargs))
save_plan(kwargs) ==
    /\ LET service_date == DictGet(kwargs, "service_date", None)
       IN  IF ~Truthy(service_date)
           THEN /\ probe' = [fn |-> "save_plan", service_date |-> service_date,
                             pc |-> "raised", exc |-> "ValueError"]
                /\ UNCHANGED music_vars
           ELSE IF ~PlanTable[kwargs].ok
           THEN /\ probe' = [fn |-> "save_plan", service_date |-> service_date,
                             pc |-> "raised", exc |-> "IndexError"]
                /\ UNCHANGED music_vars
           ELSE /\ Len(history) < MaxMusicCalls
                /\ plans' = SetItem(plans, service_date.s, PlanTable[kwargs].v)
                /\ storage_path' = File(TRUE, MusicDumps[plans'])
                /\ history' = Append(history, [op |-> "save_plan",
                                               service_date |-> service_date.s,
                                               ret |-> PlanTable[kwargs].v])
                /\ probe' = [fn |-> "save_plan", service_date |-> service_date,
                             pc |-> "returned", ret |-> PlanTable[kwargs].v]
    /\ MusicOnly

\* MusicService.get_plan(service_date)
get_plan(service_date) ==
    /\ probe' = [fn |-> "get_plan", service_date |-> service_date, pc |-> "returned",
                 ret |-> DictGet(plans, service_date, None)]
    /\ UNCHANGED music_vars
    /\ MusicOnly

\* MusicService.delete_plan(service_date)
delete_plan(service_date) ==
    /\ Len(history) < MaxMusicCalls
    /\ IF HasKey(plans, service_date)
       THEN /\ plans' = DelItem(plans, service_date)
            /\ storage_path' = File(TRUE, MusicDumps[plans'])
       ELSE UNCHANGED <<plans, storage_path>>
    /\ history' = Append(history, [op |-> "delete_plan", service_date |-> service_date,
                                   ret |-> Bool(HasKey(plans, service_date))])
    /\ probe' = [fn |-> "delete_plan", service_date |-> service_date, pc |-> "returned",
                 ret |-> Bool(HasKey(plans, service_date))]
    /\ MusicOnly

\* MusicService.__init__ on the same storage_path, in a later process:
\* _load reads the file if there is one
Construct_MusicService ==
    /\ plans' = IF storage_path.exists /\ MusicLoads[storage_path.text].ok
                THEN MusicLoads[storage_path.text].v
                ELSE Dict(<<>>)
    /\ probe' = [fn |-> "MusicService", pc |-> "returned"]
    /\ UNCHANGED <<storage_path, history>>
    /\ MusicOnly

\* the state after MusicService.__init__ on an empty directory
InitMusic ==
    /\ LibraryAtRest
    /\ ServiceAtRest
    /\ HAS_LITURGICAL_PKG = FALSE
    /\ info = NoInfo
    /\ probe = NoProbe

NextMusic ==
    \/ \E kwargs \in PlanInputs : save_plan(kwargs)
    \/ \E service_date \in MusicDates \cup {"2026-03-01"} : get_plan(service_date)
    \/ \E service_date \in MusicDates \cup {"2026-03-01"} : delete_plan(service_date)
    \/ Construct_MusicService

SpecMusic == InitMusic /\ [][NextMusic]_vars

(***************************************************************************)
(* bulletin-backend/modules/asset_extractor.py: AssetExtractor on the      *)
(* directory /app/assets.  Image bytes are named, hashlib.sha256 is the    *)
(* table SHA256 over them; asset_dir maps a path to what the file holds:   *)
(* the bytes of an image, or the manifest last written.                    *)
(***************************************************************************)
\* an image: its bytes, the format and the size a PDF library reports for
\* it, the number of its bytes, whether PIL opens it, and what
\* doc.extract_image does with it ("image", "nothing" or "raises")
Image(bytes, ext, width, height, size_bytes, opens, extract) ==
    [bytes |-> bytes, ext |-> ext, width |-> width, height |-> height,
     size_bytes |-> size_bytes, opens |-> opens, extract |-> extract]

ImgLogo == Image("logo bytes", "png", 100, 100, 6000, TRUE, "image")
ImgBorder == Image("border bytes", "png", 400, 40, 3000, TRUE, "image")
ImgPhoto == Image("photo bytes", "jpeg", 800, 600, 90000, FALSE, "image")
ImgTiny == Image("dot bytes", "png", 10, 10, 80, TRUE, "image")
ImgNothing == Image("mask bytes", "png", 50, 50, 500, TRUE, "nothing")
ImgRaises == Image("bad bytes", "png", 50, 50, 500, TRUE, "raises")

\* hashlib.sha256(image_bytes).hexdigest(): different bytes have different
\* digests; the digests of the logo and of the border begin with the same
\* twelve characters
SHA256 ==
    [bytes \in {"logo bytes", "border bytes", "photo bytes", "dot bytes", "mask bytes",
                "bad bytes"} |->
        CASE bytes = "logo bytes" -> "3fa85f6457e10000000000000000000000000000000000000000000000000001"
          [] bytes = "border bytes" -> "3fa85f6457e10000000000000000000000000000000000000000000000000002"
          [] bytes = "photo bytes" -> "9b2c41d07a550000000000000000000000000000000000000000000000000003"
          [] bytes = "dot bytes" -> "c4d1e8f09a270000000000000000000000000000000000000000000000000004"
          [] bytes = "mask bytes" -> "e07b35aa1c640000000000000000000000000000000000000000000000000005"
          [] OTHER -> "5d9f20c3b7e80000000000000000000000000000000000000000000000000006"]

\* sha256[:12]
Sha12(sha256) == SubSeq(sha256, 1, 12)

\* faulty variant of _is_duplicate: nothing is a duplicate
_is_duplicate_never(entries, sha256) == FALSE

\* AssetExtractor._is_duplicate(sha256) on the manifest entries
_is_duplicate(entries, sha256) ==
    \E i \in 1..Len(entries) : GetItem(entries[i], "sha256") = Str(sha256)

\* AssetExtractor._classify_image(width, height, size_bytes); aspect is
\* width / max(height, 1), compared without division
_classify_image(width, height, size_bytes) ==
    LET h == IF height > 1 THEN height ELSE 1
    IN  IF 7 * h < 10 * width /\ 10 * width < 14 * h /\ width < 400
        THEN IF size_bytes > 5000 THEN "logo" ELSE "icon"
        ELSE IF width > 4 * h /\ height < 50 THEN "border"
        ELSE IF width > 600 /\ height > 400 THEN "photo"
        ELSE IF 8 * h < 10 * width /\ 10 * width < 12 * h /\ size_bytes > 20000 THEN "seal"
        ELSE "graphic"

CATEGORIES == {"logo", "graphic", "photo", "border", "seal", "icon", "unknown"}

\* the asset_entry dict of the extraction and of upload_asset (without its
\* status)
AssetEntry(sha256, filename, path, format, width, height, size_bytes, category, source_pdf, source_label, source_page, now) ==
    Dict(<< <<"id", Str(Sha12(sha256))>>, <<"sha256", Str(sha256)>>,
            <<"filename", Str(filename)>>, <<"path", Str(path)>>,
            <<"format", Str(format)>>, <<"width", Num(width)>>,
            <<"height", Num(height)>>, <<"size_bytes", Num(size_bytes)>>,
            <<"category", Str(category)>>, <<"source_pdf", Str(source_pdf)>>,
            <<"source_label", Str(source_label)>>, <<"source_page", Num(source_page)>>,
            <<"extracted_date", Str(now)>> >>)

\* _save_manifest(): manifest.json holds the entries
SavedManifest(files, entries) ==
    [path \in DOMAIN files \cup {"/app/assets/manifest.json"} |->
        IF path = "/app/assets/manifest.json" THEN entries ELSE files[path]]

\* open(save_path, "wb").write(image_bytes)
Written(files, path, bytes) ==
    [q \in DOMAIN files \cup {path} |-> IF q = path THEN bytes ELSE files[q]]

\* fpath.unlink()
Unlinked(files, path) == [q \in DOMAIN files \ {path} |-> files[q]]

\* the first entry of the manifest whose value under key is the text; 0 if
\* there is none
FirstIndex(entries, key, text) ==
    IF \E i \in 1..Len(entries) : DictGet(entries[i], key, None) = Str(text)
    THEN CHOOSE i \in 1..Len(entries) :
             /\ DictGet(entries[i], key, None) = Str(text)
             /\ \A j \in 1..(i - 1) : DictGet(entries[j], key, None) # Str(text)
    ELSE 0

\* Path(filename).suffix.lstrip(".") for a file name without directories
RECURSIVE LastDot(_, _)
LastDot(filename, i) ==
    IF i <= 1 THEN 0
    ELSE IF SubSeq(filename, i, i) = "." THEN i
    ELSE LastDot(filename, i - 1)

Suffix(filename) ==
    IF LastDot(filename, Len(filename)) = 0 THEN ""
    ELSE SubSeq(filename, LastDot(filename, Len(filename)) + 1, Len(filename))

\* a PDF (or other) file given to extract_from_pdf: its name, stem and
\* suffix, whether it exists, and the images of its pages
Pdf(name, stem, suffix, exists, pages) ==
    [name |-> name, stem |-> stem, suffix |-> suffix, exists |-> exists, pages |-> pages]

PdfInputs ==
    {Pdf("bulletin.pdf", "bulletin", ".pdf", TRUE,
         << <<ImgLogo, ImgLogo>>, <<ImgTiny, ImgBorder, ImgRaises>> >>),
     Pdf("newsletter.PDF", "newsletter", ".PDF", TRUE,
         << <<ImgPhoto, ImgNothing, ImgLogo>> >>),
     Pdf("notes.txt", "notes", ".txt", TRUE, <<>>),
     Pdf("missing.pdf", "missing", ".pdf", FALSE, <<>>)}

\* the images of a document with their page numbers, in the order of the
\* two loops
RECURSIVE PageImages(_, _)
PageImages(pages, page_num) ==
    IF page_num > Len(pages) THEN <<>>
    ELSE [i \in 1..Len(pages[page_num]) |->
             [image |-> pages[page_num][i], source_page |-> page_num]]
         \o PageImages(pages, page_num + 1)

\* the state of an extraction: the manifest, the files, the entries
\* extracted and the two counters
Extraction(entries, files, extracted, duplicates, errors) ==
    [manifest |-> entries, files |-> files, extracted |-> extracted,
     duplicates |-> duplicates, errors |-> errors]

\* lines 148-174: the image is saved, classified and entered
Entered(ex, pdf, source_label, item, sha256, now) ==
    Extraction(
        Append(ex.manifest,
               AssetEntry(sha256, Sha12(sha256) \o "." \o item.image.ext,
                          "/app/assets/extracted/" \o Sha12(sha256) \o "." \o item.image.ext,
                          item.image.ext, item.image.width, item.image.height,
                          item.image.size_bytes,
                          _classify_image(item.image.width, item.image.height,
                                          item.image.size_bytes),
                          pdf.name, IF source_label # "" THEN source_label ELSE pdf.stem,
                          item.source_page, now)),
        Written(ex.files,
                "/app/assets/extracted/" \o Sha12(sha256) \o "." \o item.image.ext,
                item.image.bytes),
        Append(ex.extracted,
               AssetEntry(sha256, Sha12(sha256) \o "." \o item.image.ext,
                          "/app/assets/extracted/" \o Sha12(sha256) \o "." \o item.image.ext,
                          item.image.ext, item.image.width, item.image.height,
                          item.image.size_bytes,
                          _classify_image(item.image.width, item.image.height,
                                          item.image.size_bytes),
                          pdf.name, IF source_label # "" THEN source_label ELSE pdf.stem,
                          item.source_page, now)),
        ex.duplicates, ex.errors)

\* lines 127-181: the body of the loop of _extract_with_pymupdf for one image
ExtractOne(ex, pdf, source_label, item, now) ==
    IF item.image.extract = "raises"
    THEN Extraction(ex.manifest, ex.files, ex.extracted, ex.duplicates, ex.errors + 1)
    ELSE IF item.image.extract = "nothing" THEN ex
    ELSE IF item.image.width < 20 \/ item.image.height < 20 THEN ex
    ELSE IF _is_duplicate(ex.manifest, SHA256[item.image.bytes])
    THEN Extraction(ex.manifest, ex.files, ex.extracted, ex.duplicates + 1, ex.errors)
    ELSE Entered(ex, pdf, source_label, item, SHA256[item.image.bytes], now)

\* the two loops of _extract_with_pymupdf from image i on
RECURSIVE ExtractAll(_, _, _, _, _, _)
ExtractAll(ex, pdf, source_label, items, i, now) ==
    IF i > Len(items) THEN ex
    ELSE ExtractAll(ExtractOne(ex, pdf, source_label, items[i], now),
                    pdf, source_label, items, i + 1, now)

\* the summary _extract_with_pymupdf returns
Summary(pdf, ex) ==
    Dict(<< <<"source", Str(pdf.name)>>, <<"pages_processed", Num(Len(pdf.pages))>>,
            <<"images_extracted", Num(Len(ex.extracted))>>,
            <<"duplicates_skipped", Num(ex.duplicates)>>,
            <<"errors", Num(ex.errors)>>,
            <<"assets", List(ex.extracted)>> >>)

\* the other variables of the module are left alone
AssetsOnly == UNCHANGED <<service_vars, HAS_LITURGICAL_PKG, info, music_vars>>

\* the extraction has run over the document: the manifest is saved and the
\* summary returned
Extracted(pdf, ex) ==
    /\ manifest' = ex.manifest
    /\ asset_dir' = SavedManifest(ex.files, ex.manifest)
    /\ probe' = [fn |-> "extract_from_pdf", pdf |-> pdf.name, pc |-> "returned",
                 ret |-> Summary(pdf, ex)]

\* AssetExtractor.extract_from_pdf(pdf_path, source_label) with PyMuPDF
\* installed; now is what datetime.now().isoformat() gives
extract_from_pdf(pdf, source_label, now) ==
    /\ IF ~pdf.exists
       THEN /\ probe' = [fn |-> "extract_from_pdf", pdf |-> pdf.name, pc |-> "raised",
                         exc |-> "FileNotFoundError"]
            /\ UNCHANGED asset_vars
       ELSE IF lower(pdf.suffix) # ".pdf"
       THEN /\ probe' = [fn |-> "extract_from_pdf", pdf |-> pdf.name, pc |-> "raised",
                         exc |-> "ValueError"]
            /\ UNCHANGED asset_vars
       ELSE Extracted(pdf, ExtractAll(Extraction(manifest, asset_dir, <<>>, 0, 0), pdf,
                                      source_label, PageImages(pdf.pages, 1), 1, now))
    /\ AssetsOnly

\* lines 371-405 of upload_asset: the bytes are new
Uploaded(image, filename, category, label, sha256, ext, now) ==
    /\ manifest' = Append(manifest,
           SetItem(AssetEntry(sha256, Sha12(sha256) \o "." \o ext,
                              "/app/assets/uploads/" \o Sha12(sha256) \o "." \o ext, ext,
                              IF image.opens THEN image.width ELSE 0,
                              IF image.opens THEN image.height ELSE 0,
                              image.size_bytes, category, "upload",
                              IF label # "" THEN label ELSE filename, 0, now),
                   "status", Str("new")))
    /\ asset_dir' = SavedManifest(
                        Written(asset_dir,
                                "/app/assets/uploads/" \o Sha12(sha256) \o "." \o ext,
                                image.bytes),
                        manifest')
    /\ probe' = [fn |-> "upload_asset", bytes |-> image.bytes, pc |-> "returned",
                 ret |-> manifest'[Len(manifest')]]

\* AssetExtractor.upload_asset(image_bytes, filename, category, label)
upload_asset(image, filename, category, label, now) ==
    /\ IF _is_duplicate(manifest, SHA256[image.bytes])
       THEN /\ probe' = [fn |-> "upload_asset", bytes |-> image.bytes, pc |-> "returned",
                         ret |-> SetItem(
                             manifest[FirstIndex(manifest, "sha256", SHA256[image.bytes])],
                             "status", Str("duplicate"))]
            /\ UNCHANGED asset_vars
       ELSE Uploaded(image, filename, category, label, SHA256[image.bytes],
                     IF Suffix(filename) # "" THEN Suffix(filename) ELSE "png", now)
    /\ AssetsOnly

\* lines 336-341 of recategorize: the entry at position i is changed
Recategorized(i, new_category, now) ==
    /\ manifest' = [manifest EXCEPT ![i] =
                       SetItem(SetItem(manifest[i], "category", Str(new_category)),
                               "recategorized_date", Str(now))]
    /\ asset_dir' = SavedManifest(asset_dir, manifest')
    /\ probe' = [fn |-> "recategorize", asset_id |-> GetItem(manifest[i], "id").s,
                 pc |-> "returned", ret |-> manifest'[i]]

\* AssetExtractor.recategorize(asset_id, new_category)
recategorize(asset_id, new_category, now) ==
    /\ IF new_category \notin CATEGORIES
       THEN /\ probe' = [fn |-> "recategorize", asset_id |-> asset_id, pc |-> "raised",
                         exc |-> "ValueError"]
            /\ UNCHANGED asset_vars
       ELSE IF FirstIndex(manifest, "id", asset_id) = 0
       THEN /\ probe' = [fn |-> "recategorize", asset_id |-> asset_id, pc |-> "returned",
                         ret |-> None]
            /\ UNCHANGED asset_vars
       ELSE Recategorized(
                FirstIndex(manifest, "id", asset_id),
                new_category, now)
    /\ AssetsOnly

\* lines 349-356 of delete_asset: the file of the entry found is removed,
\* and every entry with the id
Deleted(asset_id, asset) ==
    /\ manifest' = SelectSeq(manifest, LAMBDA a : DictGet(a, "id", None) # Str(asset_id))
    /\ asset_dir' = SavedManifest(Unlinked(asset_dir, DictGet(asset, "path", Str("")).s),
                                  manifest')
    /\ probe' = [fn |-> "delete_asset", asset_id |-> asset_id, pc |-> "returned",
                 ret |-> Bool(TRUE)]

\* AssetExtractor.delete_asset(asset_id)
delete_asset(asset_id) ==
    /\ IF FirstIndex(manifest, "id", asset_id) = 0
       THEN /\ probe' = [fn |-> "delete_asset", asset_id |-> asset_id, pc |-> "returned",
                         ret |-> Bool(FALSE)]
            /\ UNCHANGED asset_vars
       ELSE Deleted(asset_id,
                    manifest[FirstIndex(manifest, "id", asset_id)])
    /\ AssetsOnly

\* the images uploaded, the ids asked for, and the clock
UploadInputs == {ImgLogo, ImgBorder, ImgPhoto}
AssetIds == {Sha12(SHA256[image.bytes]) : image \in UploadInputs} \cup {"000000000000"}
Clock == {"2026-02-15T10:00:00"}

\* the state after AssetExtractor.__init__ on an empty directory
InitAssets ==
    /\ LibraryAtRest
    /\ ServiceAtRest
    /\ HAS_LITURGICAL_PKG = FALSE
    /\ info = NoInfo
    /\ probe = NoProbe

NextAssets ==
    \/ \E image \in UploadInputs, filename \in {"seal.png", "scan"}, now \in Clock :
          upload_asset(image, filename, "unknown", "", now)
    \/ \E pdf \in PdfInputs, now \in Clock : extract_from_pdf(pdf, "", now)
    \/ \E asset_id \in AssetIds, new_category \in {"seal", "banner"}, now \in Clock :
          recategorize(asset_id, new_category, now)
    \/ \E asset_id \in AssetIds : delete_asset(asset_id)

SpecAssets == InitAssets /\ [][NextAssets]_vars


\* the keys of a dict
Keys(v) == {v.kv[i][1] : i \in 1..Len(v.kv)}

\* the tiers in the order of get_readings
TierOrder == <<"redis-cache", "daily-office-json", "lectserve", "builtin-year-a">>

\* the call was made with a date, or with a string that is a date
ValidDate(f) == f.cache_key # ""

\* what tier n produces from what the call read
Produced(f, n) ==
    CASE n = 1 -> SetItem(json_loads(f.data).v, "source", Str("redis-cache"))
      [] n = 2 -> DailyOfficeTable[daily_office_path, f.dt, f.fs_seen]
      [] n = 3 -> LectserveTable[f.dt, f.resp_seen]
      [] OTHER -> BuiltinTable[f.day_name]

\* what get_readings returns when no cache is configured, the dataset and
\* the remote answering as they answered the call f
NoCacheResult(f) ==
    LET r2 == IF f.fs_seen = "unseen" THEN None
              ELSE DailyOfficeTable[daily_office_path, f.dt, f.fs_seen]
        r3 == LectserveTable[f.dt, f.resp_seen]
        r4 == IF Truthy(f.day_name) THEN BuiltinTable[f.day_name] ELSE None
    IN  IF Truthy(r2) THEN r2
        ELSE IF Truthy(r3) THEN r3
        ELSE IF Truthy(r4) THEN r4
        ELSE Dict(<< <<"source", Str("none")>>, <<"readings", None>>,
                     <<"message", Str("No readings found")>> >>)

\* C1: the tiers are consulted in the order cache, local dataset, remote
\* service, built-in table; a tier is consulted only after every earlier
\* tier has missed, the built-in table only when a day_name was given; no
\* tier after the first hit is consulted; the result returned is the one the
\* first tier that hit produced, tagged with that tier's source.
C1_TierOrder ==
    \A p \in Callers :
        call[p].pc = "returned" =>
            LET f == call[p]
                n == Len(f.consulted)
            IN  /\ n \in 1..4
                /\ \A i \in 1..n :
                      /\ f.consulted[i].tier = TierOrder[i]
                      /\ i < n => ~f.consulted[i].hit
                /\ n = 4 => Truthy(f.day_name)
                /\ IF f.consulted[n].hit
                   THEN /\ f.ret = Produced(f, n)
                        /\ Source_of(f.ret) = Str(TierOrder[n])
                   ELSE /\ n = 4 \/ (n = 3 /\ ~Truthy(f.day_name))
                        /\ Source_of(f.ret) = Str("none")

\* C1 witness: a call whose first three tiers missed and whose built-in
\* tier hit has returned.
C1_Witness ==
    \E p \in Callers :
        /\ call[p].pc = "returned"
        /\ Len(call[p].consulted) = 4
        /\ call[p].consulted[4].hit
        /\ call[p].fs_seen = "corrupt"

\* C2: when the cache holds an entry for the requested date, get_readings
\* returns that entry with the source set to the cache tier, consults no
\* other tier and writes nothing: the entry is still the one that was read.
C2_CacheHit ==
    \A p \in Callers :
        call[p].data # "" =>
            LET f == call[p]
            IN  /\ f.pc = "returned"
                /\ json_loads(f.data).ok
                /\ Keys(f.ret) = Keys(json_loads(f.data).v) \cup {"source"}
                /\ \A k \in Keys(f.ret) \ {"source"} :
                      GetItem(f.ret, k) = GetItem(json_loads(f.data).v, k)
                /\ HasKey(f.ret, "readings")
                /\ Source_of(f.ret) = Str("redis-cache")
                /\ f.consulted = <<[tier |-> "redis-cache", hit |-> TRUE]>>
                /\ f.written = <<>>
                /\ f.cache_key \in DOMAIN store
                /\ store[f.cache_key] = [val |-> f.data, ttl |-> 604800]

\* C2 witness: a call with a day_name has returned an entry that the remote
\* tier had produced.
C2_Witness ==
    \E p \in Callers :
        /\ call[p].pc = "returned"
        /\ call[p].data # ""
        /\ Truthy(call[p].day_name)
        /\ Source_of(json_loads(call[p].data).v) = Str("lectserve")

\* C3: with an operational cache, a call for date D that returns a result of
\* the local-dataset, remote or built-in tier has written that result under
\* the key "rcl:" followed by the ISO form of D with a time-to-live of seven
\* days, and has written no other key.
C3_WriteBack ==
    \A p \in Callers :
        LET f == call[p]
        IN  /\ f.pc = "returned"
            /\ redis_client = "client"
            /\ ~f.set_failed
            /\ Source_of(f.ret) \in {Str("daily-office-json"), Str("lectserve"),
                                      Str("builtin-year-a")}
            => /\ f.written = <<[key |-> "rcl:" \o IsoformatTable[f.dt], ttl |-> 604800,
                                 val |-> json_dumps(f.ret)]>>
               /\ "rcl:" \o IsoformatTable[f.dt] \in DOMAIN store
               /\ store["rcl:" \o IsoformatTable[f.dt]] = [val |-> json_dumps(f.ret), ttl |-> 604800]
               /\ json_loads(store["rcl:" \o IsoformatTable[f.dt]].val).v = f.ret

\* C3 witness: a call for the second date has written its built-in result
\* back while the store holds an entry for the first date.
C3_Witness ==
    \E p \in Callers :
        /\ call[p].pc = "returned"
        /\ call[p].dt = D2
        /\ call[p].written # <<>>
        /\ Source_of(call[p].ret) = Str("builtin-year-a")
        /\ "rcl:" \o IsoformatTable[D1] \in DOMAIN store

\* C4: get_readings on a valid date never raises, whatever the collaborators
\* do: a malformed cache payload (not valid JSON, or valid JSON that is not a
\* readings object), a missing or unparsable dataset file is treated as a
\* miss of its tier and the lookup goes on with the next tier.
C4_NeverRaises ==
    \A p \in Callers :
        LET f == call[p]
        IN  /\ ValidDate(f) => f.pc # "raised"
            /\ f.pc = "returned" /\ f.data \in ForeignPayloads =>
                  /\ ~f.consulted[1].hit
                  /\ Len(f.consulted) >= 2
            /\ f.pc = "returned" /\ f.fs_seen \in {"absent", "corrupt"} =>
                  /\ ~f.consulted[2].hit
                  /\ Len(f.consulted) >= 3

\* C5: a failing cache is a cache miss: when the get call or the set call
\* throws, or the cache was unreachable at construction, get_readings does
\* not raise and returns the result it returns with no cache configured.
C5_FailingCache ==
    \A p \in Callers :
        LET f == call[p]
        IN  /\ f.pc \in {"returned", "raised"}
            /\ ValidDate(f)
            /\ f.get_failed \/ f.set_failed \/ redis_client = "none"
            => /\ f.pc = "returned"
               /\ f.ret = NoCacheResult(f)

\* C5 witness: the get call of a call threw although the store holds an entry
\* for its date, and the call has returned a result of a later tier.
C5_Witness ==
    \E p \in Callers :
        /\ call[p].pc = "returned"
        /\ call[p].get_failed
        /\ call[p].cache_key \in DOMAIN store
        /\ call[p].written = <<>>
        /\ call[p].set_failed
        /\ Source_of(call[p].ret) = Str("lectserve")

\* C6: a failure of the remote tier (transport error, timeout, a status other
\* than 200) is a miss: get_readings does not raise, goes on to the built-in
\* tier and returns; only a 200 response yields a result with the remote
\* source.
C6_RemoteFailure ==
    \A p \in Callers :
        LET f == call[p]
            failed == f.resp_seen.kind # "http" \/ f.resp_seen.status_code # 200
        IN  f.resp_seen # NoResponse =>
               /\ f.pc = "returned"
               /\ Len(f.consulted) >= 3
               /\ f.consulted[3].tier = "lectserve"
               /\ failed =>
                     /\ ~f.consulted[3].hit
                     /\ Truthy(f.day_name) =>
                           /\ Len(f.consulted) = 4
                           /\ f.consulted[4].tier = "builtin-year-a"
                     /\ f.ret = IF Truthy(f.day_name) /\ Truthy(BuiltinTable[f.day_name])
                                THEN BuiltinTable[f.day_name]
                                ELSE Dict(<< <<"source", Str("none")>>,
                                             <<"readings", None>>,
                                             <<"message", Str("No readings found")>> >>)
               /\ Source_of(f.ret) = Str("lectserve") => ~failed

\* C6 witness: the remote timed out and the call has returned the result of
\* the built-in tier.
C6_Witness ==
    \E p \in Callers :
        /\ call[p].pc = "returned"
        /\ call[p].resp_seen.kind = "timeout"
        /\ Source_of(call[p].ret) = Str("builtin-year-a")

\* C7: when all four tiers miss, get_readings returns a mapping with a
\* "readings" key, empty readings and the source "none"; for every date and
\* every outcome of the tiers the value returned is a mapping that has a
\* "readings" key.
C7_AlwaysReadings ==
    \A p \in Callers :
        LET f == call[p]
        IN  f.pc = "returned" =>
               /\ f.ret.t = "dict"
               /\ HasKey(f.ret, "readings")
               /\ (\A i \in 1..Len(f.consulted) : ~f.consulted[i].hit) =>
                     /\ Source_of(f.ret) = Str("none")
                     /\ ~Truthy(Readings_of(f.ret))

\* C8 as stated: two consecutive calls for the same date with no cache
\* expiry between them return identical readings, whichever tier produced
\* the first result, also when the first call found nothing or ran without
\* a usable cache.
C8_Idempotent ==
    \A p \in Callers :
        call[p].pc = "returned" /\ call[p].follows =>
            Readings_of(call[p].ret) = prev[call[p].cache_key].readings

\* C8 amended: two consecutive calls for the same date with no cache expiry
\* between them return identical readings when the result of the first was
\* in the cache as it returned (it was a cache hit, or it was written back)
\* and the cache get of the second does not fail.
C8_IdempotentCached ==
    \A p \in Callers :
        LET f == call[p]
        IN  /\ f.pc = "returned"
            /\ f.follows
            /\ prev[f.cache_key].in_cache
            /\ ~f.get_failed
            => /\ Readings_of(f.ret) = prev[f.cache_key].readings
               /\ Source_of(f.ret) = Str("redis-cache")

\* C8 witness: a call that directly follows a call whose built-in result was
\* cached has returned, made without a day_name.
C8_Witness ==
    \E p \in Callers :
        /\ call[p].pc = "returned"
        /\ call[p].follows
        /\ prev[call[p].cache_key].in_cache
        /\ ~call[p].get_failed
        /\ ~Truthy(call[p].day_name)
        /\ Truthy(Readings_of(call[p].ret))
        /\ Source_of(json_loads(call[p].data).v) = Str("builtin-year-a")

\* C9 as stated: with an operational cache, once a call for date D has
\* returned a result of the local-dataset, remote or built-in tier, every
\* later call for D before the entry expires resolves from the cache tier
\* with the same readings, whatever day_name it passes.
C9_LaterCalls ==
    \A p \in Callers :
        LET f == call[p]
        IN  f.pc # "idle" /\ f.late /\ ~f.get_failed =>
               /\ f.pc = "returned"
               /\ Source_of(f.ret) = Str("redis-cache")
               /\ Readings_of(f.ret) = estab[f.cache_key]

\* C9 amended: with an operational cache, once a call for date D has
\* returned a result of the local-dataset, remote or built-in tier, every
\* later call for D before the entry expires resolves from the cache tier,
\* with the readings of the latest write-back for D: those of the first
\* result unless a call that was in progress has written since.
C9_LaterCallsLatest ==
    \A p \in Callers :
        LET f == call[p]
        IN  f.pc # "idle" /\ f.late /\ ~f.get_failed =>
               /\ f.pc = "returned"
               /\ Source_of(f.ret) = Str("redis-cache")
               /\ f.cache_key \in DOMAIN lastw
               /\ Readings_of(f.ret) = Readings_of(lastw[f.cache_key])

\* C9 witness: a later call has returned from the cache the readings that a
\* call in progress wrote over the first result.
C9_Witness ==
    \E p \in Callers :
        /\ call[p].pc = "returned"
        /\ call[p].late
        /\ ~call[p].get_failed
        /\ Readings_of(call[p].ret) # estab[call[p].cache_key]

\* no call is in progress
AllIdle == \A q \in Callers : call[q].pc = "idle"

\* every call on a valid date finishes without an error, with a mapping that
\* has a source and readings
WellFormed ==
    \A p \in Callers :
        LET f == call[p]
        IN  /\ ValidDate(f) => f.pc # "raised"
            /\ f.pc = "returned" =>
                  /\ f.ret.t = "dict"
                  /\ HasKey(f.ret, "source")
                  /\ HasKey(f.ret, "readings")

\* the entry of a date is the result of the latest write-back for it
LastWriteWins ==
    \A k \in DOMAIN lastw :
        /\ k \in DOMAIN store
        /\ store[k] = [val |-> json_dumps(lastw[k]), ttl |-> 604800]
        /\ json_loads(store[k].val).v = lastw[k]

\* C10 as stated: under any interleaving of concurrent calls for the same
\* date every call completes with a well-formed result and no error, and the
\* cache entry equals the result of the write that happened last; when the
\* collaborators answer all callers alike, every call returns the same
\* readings and the final entry is that of a single call.
C10_Concurrent ==
    /\ WellFormed
    /\ LastWriteWins
    /\ \A p \in Callers :
          LET f == call[p]
          IN  /\ f.pc = "returned"
              /\ answers.kind = "fixed"
              /\ ~f.follows
              /\ f.cache_key \in DOMAIN prev
              => Readings_of(f.ret) = prev[f.cache_key].readings
    /\ AllIdle /\ answers.kind = "fixed" =>
          \A k \in DOMAIN lastw : Readings_of(lastw[k]) = estab[k]

\* C10 amended: as C10, the last part for callers that also pass the same
\* day_name: when the collaborators answer all callers alike and all callers
\* pass the same day_name, every call returns the same readings and the
\* final entry is that of a single call.
C10_ConcurrentSameName ==
    /\ WellFormed
    /\ LastWriteWins
    /\ \A p \in Callers :
          LET f == call[p]
          IN  /\ f.pc = "returned"
              /\ answers.kind = "fixed"
              /\ ~f.follows
              /\ f.cache_key \in DOMAIN prev
              /\ prev[f.cache_key].names = {f.day_name}
              => Readings_of(f.ret) = prev[f.cache_key].readings
    /\ AllIdle /\ answers.kind = "fixed" =>
          \A k \in DOMAIN lastw :
              k \in DOMAIN prev /\ Cardinality(prev[k].names) = 1 =>
                  Readings_of(lastw[k]) = estab[k]

\* C10 witness: of two calls in progress at the same time with the same
\* day_name and the same answers, the second to finish has written the
\* result again and returned the readings of the first.
C10_Witness ==
    \E p \in Callers :
        /\ call[p].pc = "returned"
        /\ answers.kind = "fixed"
        /\ ~call[p].follows
        /\ call[p].cache_key \in DOMAIN prev
        /\ prev[call[p].cache_key].names = {call[p].day_name}
        /\ prev[call[p].cache_key].in_cache
        /\ call[p].written # <<>>
        /\ Source_of(call[p].ret) = Str("builtin-year-a")

(***************************************************************************)
(* Properties of the built-in tier.                                        *)
(***************************************************************************)
\* the table names in small letters
FoldedNames == [i \in 1..Len(BUILTIN_YEAR_A) |-> lower(BUILTIN_YEAR_A[i][1])]

\* for a day name, the table positions whose name equals it ignoring letter case
EqualIgnoringCase ==
    [name \in BuiltinNameInputs |->
        IF name.t # "str" THEN {}
        ELSE LET folded == lower(name.s)
             IN  {i \in 1..Len(BUILTIN_YEAR_A) : FoldedNames[i] = folded}]

\* the cache, the local dataset and the remote service were consulted and missed
AllMissed(f) ==
    /\ Len(f.consulted) >= 3
    /\ \A i \in 1..3 : ~f.consulted[i].hit

\* C11: when the cache, the local dataset and the remote service all miss
\* and the day_name equals a built-in table name ignoring letter case,
\* get_readings returns that entry's first_lesson, psalm, second_lesson and
\* gospel with the built-in source; the entry of the equal name is returned
\* even where other table names are contained in the day name.
C11_ExactMatch ==
    (call[1].pc = "returned" /\ AllMissed(call[1])) =>
        \A i \in EqualIgnoringCase[call[1].day_name] :
            /\ Source_of(call[1].ret) = Str("builtin-year-a")
            /\ Readings_of(call[1].ret) = BUILTIN_YEAR_A[i][2]
            /\ \A k \in {"first_lesson", "psalm", "second_lesson", "gospel"} :
                  GetItem(Readings_of(call[1].ret), k) = GetItem(BUILTIN_YEAR_A[i][2], k)

\* C11 witness: a call with the third Sunday after the Epiphany in capital
\* letters, whose first three tiers missed, has returned Isaiah 9:1-4,
\* 1 Corinthians 1:10-18 and Matthew 4:12-23, although "The Epiphany" is
\* contained in that name too.
C11_Witness ==
    /\ call[1].pc = "returned"
    /\ AllMissed(call[1])
    /\ call[1].day_name = Str("THE THIRD SUNDAY AFTER THE EPIPHANY")
    /\ GetItem(Readings_of(call[1].ret), "first_lesson") = Str("Isaiah 9:1-4")
    /\ GetItem(Readings_of(call[1].ret), "second_lesson") = Str("1 Corinthians 1:10-18")
    /\ GetItem(Readings_of(call[1].ret), "gospel") = Str("Matthew 4:12-23")

\* the entries whose case-folded name is a substring of the case-folded day name
CandidatesIn(folded) ==
    {i \in 1..Len(BUILTIN_YEAR_A) : Contains(folded, FoldedNames[i])}
Candidates(day_name) ==
    IF day_name.t # "str" THEN {} ELSE CandidatesIn(lower(day_name.s))

\* entry i is ranked before entry j: the longer name, then the earlier position
RankedBefore(i, j) ==
    \/ Len(BUILTIN_YEAR_A[i][1]) > Len(BUILTIN_YEAR_A[j][1])
    \/ Len(BUILTIN_YEAR_A[i][1]) = Len(BUILTIN_YEAR_A[j][1]) /\ i <= j

\* collect all matches, sort by length descending then table position
\* ascending, take the first
RankedCandidate(candidates) ==
    IF candidates = {} THEN None
    ELSE TierResult("builtin-year-a",
            BUILTIN_YEAR_A[CHOOSE i \in candidates :
                              \A j \in candidates : RankedBefore(i, j)][2])

\* C12: for every day name _lookup_builtin returns the entry the
\* ranked-candidate rule chooses: among the entries whose case-folded name is
\* a substring of the case-folded day name the one with the longest name,
\* the earlier in the table among equally long ones; it returns nothing
\* exactly when no entry name is a substring.
C12_RankedCandidate ==
    (probe.fn = "_lookup_builtin" /\ probe.pc = "returned") =>
        LET candidates == Candidates(probe.day_name)
        IN  /\ probe.ret = RankedCandidate(candidates)
            /\ probe.ret = None <=> candidates = {}

\* C12 witness: a day name that contains two table names of the same length,
\* the later one of the table first, has been looked up and the earlier entry
\* of the table was returned.
C12_Witness ==
    /\ probe.fn = "_lookup_builtin"
    /\ probe.pc = "returned"
    /\ probe.day_name = Str("The Third Sunday in Lent / The First Sunday in Lent")
    /\ Candidates(probe.day_name) = {15, 17}
    /\ probe.ret = TierResult("builtin-year-a", BUILTIN_YEAR_A[15][2])


(***************************************************************************)
(* Properties of the calendar computations.                                *)
(***************************************************************************)
\* C13: for every year from 1900 to 2200, _computus(year) is a Sunday and
\* lies between March 22 and April 25 inclusive of that year.
C13_EasterSunday ==
    (probe.fn = "_computus" /\ probe.year \in 1900..2200) =>
        /\ weekday(probe.ret) = 6
        /\ probe.ret.year = probe.year
        /\ DateGeq(probe.ret, Date(probe.year, 3, 22))
        /\ DateGeq(Date(probe.year, 4, 25), probe.ret)

\* C13 witness: _computus has been applied to 1943 and to 2038 and returned
\* April 25, the latest date it can return.
C13_Witness ==
    /\ probe.fn = "_computus"
    /\ probe.year \in {1943, 2038}
    /\ probe.ret = Date(probe.year, 4, 25)

\* Easter by Gauss's rule for the Gregorian calendar: the day of March on
\* which Easter falls (days after March 31 are days of April), with its two
\* exceptions
GaussMarchDay(year) ==
    LET a == year % 19
        b == year % 4
        c == year % 7
        k == year \div 100
        p == (13 + 8 * k) \div 25
        q == k \div 4
        M == (15 - p + k - q) % 30
        N == (4 + k - q) % 7
        d == (19 * a + M) % 30
        e == (2 * b + 4 * c + 6 * d + N) % 7
    IN  IF d = 29 /\ e = 6 THEN 50
        ELSE IF d = 28 /\ e = 6 /\ (11 * M + 11) % 30 < 19 THEN 49
        ELSE 22 + d + e

GaussEaster(year) ==
    IF GaussMarchDay(year) <= 31 THEN Date(year, 3, GaussMarchDay(year))
    ELSE Date(year, 4, GaussMarchDay(year) - 31)

\* C14: for every year from 1583 on, _computus returns the month and day
\* that an independent formulation of the Gregorian Easter computation
\* (Gauss's rule) gives; it always returns a date of the year it was given.
C14_ReferenceEaster ==
    probe.fn = "_computus" =>
        /\ probe.ret = GaussEaster(probe.year)
        /\ probe.ret.year = probe.year
        /\ probe.ret.month \in {3, 4}
        /\ probe.ret.day \in 1..DaysInMonth(probe.year, probe.ret.month)

\* C14 witness: _computus has been applied to 1981, a year for which Gauss's
\* rule needs its first exception (April 26 becomes April 19), and returned
\* April 19.
C14_Witness ==
    /\ probe.fn = "_computus"
    /\ probe.year = 1981
    /\ GaussMarchDay(1981) = 50
    /\ probe.ret = Date(1981, 4, 19)

\* C15: for every year, _first_sunday_of_advent(year) is a Sunday dated from
\* November 27 to December 3 inclusive, also in the years in which December
\* 25 is a Sunday.
C15_AdventSunday ==
    probe.fn = "_first_sunday_of_advent" =>
        /\ weekday(probe.ret) = 6
        /\ DateGeq(probe.ret, Date(probe.year, 11, 27))
        /\ DateGeq(Date(probe.year, 12, 3), probe.ret)


\* the first Sunday of Advent of a year: the Sunday from November 27 to
\* December 3
AdventSunday(year) ==
    CHOOSE dt \in {Date(year, 11, 27), Date(year, 11, 28), Date(year, 11, 29),
                   Date(year, 11, 30), Date(year, 12, 1), Date(year, 12, 2),
                   Date(year, 12, 3)} : weekday(dt) = 6

\* the liturgical year Y of a date: the date lies from the first Sunday of
\* Advent of Y through the day before the first Sunday of Advent of Y + 1
LiturgicalYear(dt) ==
    IF DateGeq(dt, AdventSunday(dt.year)) THEN dt.year ELSE dt.year - 1

\* C16: for every date D from the first Sunday of Advent of a year Y through
\* the day before the first Sunday of Advent of Y + 1, calculate_rcl_year(D)
\* is the letter of Y mod 3 (0 A, 1 B, 2 C) and calculate_lectionary_year(D)
\* is Two when Y is even and One when Y is odd.
C16_CyclesOfLiturgicalYear ==
    /\ probe.fn = "calculate_rcl_year" =>
          probe.ret = <<"A", "B", "C">>[(LiturgicalYear(probe.dt) % 3) + 1]
    /\ probe.fn = "calculate_lectionary_year" =>
          probe.ret = IF LiturgicalYear(probe.dt) % 2 = 0 THEN "Year Two" ELSE "Year One"


(***************************************************************************)
(* Properties of get_calendar_info.                                        *)
(***************************************************************************)
\* the call has returned a result built by the built-in calculator
BuiltinPath ==
    /\ info.pc = "returned"
    /\ ~HasKey(info.ret, "raw_calendar")

\* the season of a date by the stated boundaries, the first Sunday of Advent
\* being the date _first_sunday_of_advent gives
SeasonByBoundaries(dt) ==
    LET easter == _computus(dt.year)
        ash_wednesday == timedelta_added(easter, 0 - 46)
        pentecost == timedelta_added(easter, 49)
    IN  IF DateGeq(dt, Date(dt.year, 12, 25)) THEN "Christmas"
        ELSE IF DateGeq(dt, _first_sunday_of_advent(dt.year)) THEN "Advent"
        ELSE IF DateGeq(dt, pentecost) THEN "The Season after Pentecost"
        ELSE IF DateGeq(dt, easter) THEN "Easter"
        ELSE IF DateGeq(dt, ash_wednesday) THEN "Lent"
        ELSE IF DateGeq(dt, Date(dt.year, 1, 6)) THEN "The Season after the Epiphany"
        ELSE "Christmas"

\* C17: on the built-in path the season of every date follows the stated
\* boundaries: Advent from the first Sunday of Advent through December 24,
\* Christmas from December 25 through January 5, the Epiphany season from
\* January 6 to the day before Ash Wednesday, Lent to the day before Easter,
\* Easter to the day before Pentecost, the Pentecost season to the day
\* before the next first Sunday of Advent; every December 25 is Christmas.
C17_SeasonBoundaries ==
    BuiltinPath =>
        /\ GetItem(info.ret, "season") = Str(SeasonByBoundaries(info.dt))
        /\ (info.dt.month = 12 /\ info.dt.day = 25) =>
              GetItem(info.ret, "season") = Str("Christmas")

\* the six seasons
Seasons ==
    {Str("Advent"), Str("Christmas"), Str("The Season after the Epiphany"), Str("Lent"),
     Str("Easter"), Str("The Season after Pentecost")}

\* C18: whichever path answers and whatever season the authority returns,
\* get_calendar_info returns a result with one season, and it is one of the
\* six seasons.
C18_OneOfSixSeasons ==
    info.pc = "returned" =>
        /\ HasKey(info.ret, "season")
        /\ GetItem(info.ret, "season") \in Seasons

\* the authority returned a structure with a season and a name that are
\* strings and a week number that is an integer
RightShape(v) ==
    /\ v.t = "dict"
    /\ HasKey(v, "season") /\ GetItem(v, "season").t = "str"
    /\ HasKey(v, "weekno") /\ GetItem(v, "weekno").t = "num"
    /\ HasKey(v, "name") /\ GetItem(v, "name").t = "str"

\* the keys of a complete result
CompleteKeys ==
    {"date", "is_sunday", "rcl_year", "lectionary_year", "easter_date",
     "day_name", "season", "colour"}

\* C19: get_calendar_info does not fail for a valid date; if the authority
\* raises or returns a value of the wrong shape, the call returns a complete
\* result, the one it returns when the authority is not installed.
C19_AuthorityFailure ==
    /\ info.pc = "raised" => (info.arg.kind = "str" /\ ~strptime(info.arg.text).ok)
    /\ (/\ info.pc = "returned"
        /\ \/ info.answer.kind = "raises"
           \/ info.answer.kind = "returns" /\ ~RightShape(info.answer.value)) =>
          /\ CompleteKeys \subseteq Keys(info.ret)
          /\ info.ret = get_calendar_info(info.dt, FALSE, NotInstalled)

\* C20: if the authority returns a season name that is not in the name
\* mapping table, the authority's answer is discarded: season, colour and
\* day name, the whole result, are those of the built-in computation.
C20_UnmappedSeason ==
    (/\ info.pc = "returned"
     /\ info.answer.kind = "returns"
     /\ RightShape(info.answer.value)
     /\ ~HasKey(SEASON_MAP, GetItem(info.answer.value, "season").s)) =>
        info.ret = get_calendar_info(info.dt, FALSE, NotInstalled)


\* the number of days from date a to date b
DaysBetween(a, b) == toordinal(b) - toordinal(a)

\* the name the season's ordinal table gives a Sunday of the Epiphany season,
\* of Lent or of Easter by its 1-based week of the season; "" for other
\* dates and for weeks the tables do not name
PositionalName(dt) ==
    LET easter == _computus(dt.year)
        ash_wednesday == timedelta_added(easter, 0 - 46)
        pentecost == timedelta_added(easter, 49)
        in_epiphany == (DaysBetween(Date(dt.year, 1, 6), dt) + 6) \div 7
        in_lent == (DaysBetween(ash_wednesday, dt) + 3) \div 7
        in_easter == (DaysBetween(easter, dt) \div 7) + 1
    IN  IF weekday(dt) # 6 THEN ""
        ELSE IF DateLess(Date(dt.year, 1, 6), dt) /\ DateLess(dt, ash_wednesday)
             THEN IF in_epiphany \in 1..Len(EPIPHANY_NAMES)
                  THEN EPIPHANY_NAMES[in_epiphany] ELSE ""
        ELSE IF DateGeq(dt, ash_wednesday) /\ DateLess(dt, easter)
             THEN IF in_lent \in 1..Len(LENT_NAMES) THEN LENT_NAMES[in_lent] ELSE ""
        ELSE IF DateGeq(dt, easter) /\ DateLess(dt, pentecost)
             THEN IF in_easter \in 1..Len(EASTER_NAMES) THEN EASTER_NAMES[in_easter] ELSE ""
        ELSE ""

\* C21: on the built-in path the day_name is resolved positionally: for a
\* Sunday of the Epiphany season, of Lent or of Easter it is the name the
\* season's ordinal table gives the 1-based week of the season (the third
\* Sunday of the Epiphany season is 'The Third Sunday after the Epiphany'),
\* as on the authority path.
C21_PositionalDayName ==
    (BuiltinPath /\ PositionalName(info.dt) # "") =>
        GetItem(info.ret, "day_name") = Str(PositionalName(info.dt))

\* the colour the season determines
ColourOfSeason(season) ==
    CASE season \in {Str("Advent"), Str("Lent")} -> Str("Purple")
      [] season \in {Str("Christmas"), Str("Easter")} -> Str("White")
      [] OTHER -> Str("Green")

\* C22: in every result of get_calendar_info the colour is the one the
\* season determines: Purple for Advent and Lent, White for Christmas and
\* Easter, Green for the season after the Epiphany and the season after
\* Pentecost (and for any other season); so two results with the same
\* season carry the same colour.
C22_ColourOfSeason ==
    info.pc = "returned" =>
        GetItem(info.ret, "colour") = ColourOfSeason(GetItem(info.ret, "season"))

\* C22 witness: a call answered from the authority's Lent has returned
\* Purple for a date the built-in calculator places in a Green season.
C22_Witness ==
    /\ info.pc = "returned"
    /\ HasKey(info.ret, "raw_calendar")
    /\ GetItem(info.ret, "season") = Str("Lent")
    /\ GetItem(info.ret, "colour") = Str("Purple")
    /\ BuiltinSeason(info.dt) = "The Season after Pentecost"

\* the approximate liturgical year of a date: the calendar year, reduced by
\* one before November 27
ApproximateYear(dt) ==
    IF dt.month < 11 \/ (dt.month = 11 /\ dt.day < 27) THEN dt.year - 1 ELSE dt.year

\* the document the approximate liturgical year selects
DocumentOf(dt) ==
    IF ApproximateYear(dt) % 2 = 1 THEN "year-one.json" ELSE "year-two.json"

\* the first record in document order whose day field is wanted, as the
\* tier's result; None where there is none
FirstRecord(records, wanted) ==
    LET hits == {i \in 1..Len(records) :
                    HasKey(records[i], "day") /\ GetItem(records[i], "day") = Str(wanted)}
    IN  IF hits = {} THEN None
        ELSE TierResult("daily-office-json",
                        records[CHOOSE i \in hits : \A j \in hits : i <= j])

\* what the local-dataset tier is to return for the date dt and the
\* documents fs
ExpectedOffice(dt, fs) ==
    LET file == fs[DocumentOf(dt)]
        doc == Loads(file.text)
    IN  IF ~file.exists \/ ~doc.ok THEN None
        ELSE FirstRecord(doc.v.kv, MonthNames[dt.month] \o " " \o NatStr(dt.day))

\* C27: the local-dataset tier reads year-one.json exactly when the
\* approximate liturgical year (the calendar year, one less before
\* November 27) is odd and year-two.json otherwise, and returns the first
\* record in document order whose day field is the full month name and the
\* day number without a leading zero; an absent document or a document
\* without such a record is a miss.
C27_DailyOfficeRecord ==
    (probe.fn = "_lookup_daily_office" /\ probe.pc = "returned") =>
        info.ret = ExpectedOffice(probe.dt, probe.fs)

\* C27 witness: on November 27 of an odd year the tier has returned the
\* first of the two November 27 records of year-one.json, both documents
\* being present.
C27_Witness ==
    /\ probe.fn = "_lookup_daily_office"
    /\ probe.pc = "returned"
    /\ probe.dt = Date(2025, 11, 27)
    /\ probe.fs = FsFull
    /\ info.ret = TierResult("daily-office-json", OfficeRecords("one")[1])

\* the window in which the approximate boundary and the First Sunday of
\* Advent can differ
InAdventWindow(dt) ==
    (dt.month = 11 /\ dt.day >= 27) \/ (dt.month = 12 /\ dt.day <= 3)

\* the cycle of a document
CycleOfDocument(filename) ==
    IF filename = "year-one.json" THEN "Year One" ELSE "Year Two"

\* C28: for every date outside November 27 to December 3 the document the
\* local-dataset tier picks is the one of the cycle calculate_lectionary_year
\* returns for the date; the two differ only inside that window.
C28_SameCycleOutsideWindow ==
    (probe.fn = "DailyOfficeFilename" /\ ~InAdventWindow(probe.dt)) =>
        CycleOfDocument(probe.ret) = calculate_lectionary_year(probe.dt)

\* C28 witness: the document has been picked for December 4 of a year, the
\* first day after the window, and the two agree; inside the window, on
\* November 27 of that year, they differ.
C28_Witness ==
    /\ probe.fn = "DailyOfficeFilename"
    /\ probe.dt = Date(2023, 12, 4)
    /\ CycleOfDocument(probe.ret) = calculate_lectionary_year(probe.dt)
    /\ CycleOfDocument(DailyOfficeFilename(Date(2023, 11, 27)))
           # calculate_lectionary_year(Date(2023, 11, 27))

\* the season of the target vocabulary for a season of the authority
TranslatedSeason(season) ==
    CASE season = "Advent" -> "Advent"
      [] season = "Christmas" -> "Christmas"
      [] season \in {"Epiphany", "before Lent"} -> "The Season after the Epiphany"
      [] season = "Lent" -> "Lent"
      [] season = "Easter" -> "Easter"
      [] OTHER -> "The Season after Pentecost"

\* the name is the table's for a week the table defines and a generated
\* label containing "Week N" for any other week
TableOrWeekLabel(names, weekno, name) ==
    IF weekno \in 1..Len(names) THEN name = names[weekno]
    ELSE Contains(name, "Week " \o NatStr(weekno))

\* the position-mapping rules for a translated season and a week number
PositionRule(season, weekno, name) ==
    CASE season = "The Season after the Epiphany" ->
            TableOrWeekLabel(EPIPHANY_NAMES, weekno, name)
      [] season = "Lent" -> TableOrWeekLabel(LENT_NAMES, weekno, name)
      [] season = "Easter" -> TableOrWeekLabel(EASTER_NAMES, weekno, name)
      [] season = "The Season after Pentecost" /\ weekno > 0 ->
            Contains(name, "Proper " \o NatStr(weekno + 1))
      [] season = "Advent" /\ weekno >= 1 ->
            name = "The " \o <<"First", "Second", "Third", "Fourth">>[IF weekno > 4 THEN 4
                                                                      ELSE weekno]
                     \o " Sunday of Advent"
      [] OTHER -> TRUE

\* C26: the day name _map_episcopal_name returns depends on the translated
\* season and the week number only (two authority seasons with the same
\* translation and any two names of the authority give the same day name),
\* it follows the position rules of the season, and the function raises for
\* no week number of 0 or more.
C26_NameOfSeasonAndWeek ==
    (probe.fn = "_map_episcopal_name" /\ probe.pc = "returned") =>
        /\ info.ret.ok
        /\ PositionRule(TranslatedSeason(probe.season), probe.weekno, info.ret.v.s)
        /\ \A season \in AuthoritySeasons, cal_name \in AuthorityNames :
               TranslatedSeason(season) = TranslatedSeason(probe.season) =>
                   _map_episcopal_name(Str(season), Num(probe.weekno), Str(cal_name))
                       = info.ret

\* the table entry pattern is the entry of the day called name: the name
\* is the pattern, or the pattern followed by a colon and a title
SameDay(name, pattern) == name = pattern \/ StartsAt(name, 1, pattern \o ":")

\* C29: for every day name get_calendar_info can produce, _lookup_builtin
\* returns nothing or the readings of the table entry of that same day,
\* never the readings of another day.
C29_NoCollision ==
    (probe.fn = "_lookup_builtin" /\ probe.pc = "returned") =>
        \/ probe.ret = None
        \/ \E i \in 1..Len(BUILTIN_YEAR_A) :
               /\ SameDay(probe.day_name.s, BUILTIN_YEAR_A[i][1])
               /\ probe.ret = TierResult("builtin-year-a", BUILTIN_YEAR_A[i][2])

\* the sources of the tiers whose results are written to the cache
CachedSources == {Str("daily-office-json"), Str("lectserve"), Str("builtin-year-a")}

\* C30: every cache entry holds the result of the local-dataset, the remote
\* or the built-in tier: no entry carries the source "none" or
\* "redis-cache"; a call in which every tier missed has written nothing
\* and has returned the "none" value after asking the tiers.
C30_OnlyTierResultsCached ==
    /\ \A key \in DOMAIN store :
           /\ json_loads(store[key].val).ok
           /\ Source_of(json_loads(store[key].val).v) \in CachedSources
    /\ \A p \in Callers :
           (call[p].pc = "returned" /\ Source_of(call[p].ret) = Str("none")) =>
               /\ call[p].written = <<>>
               /\ call[p].consulted # <<>>
               /\ \A i \in 1..Len(call[p].consulted) : ~call[p].consulted[i].hit

\* C30 witness: with a cache configured that holds the result an earlier
\* call wrote, a call has returned the "none" value for a date that has no
\* cache entry, every tier having missed.
C30_Witness ==
    /\ redis_client = "client"
    /\ DOMAIN store # {}
    /\ \E p \in Callers :
           /\ call[p].pc = "returned"
           /\ call[p].ret = NotFound
           /\ Len(call[p].consulted) >= 3
           /\ call[p].cache_key \notin DOMAIN store

\* texts that are not dates
MalformedDates == {"2026-02-30", "25/01/2026", ""}

\* C23: a malformed date string is rejected: either endpoint answers it with
\* status 400, get_readings and get_calendar_info called directly raise
\* ValueError, and the step consults no tier and leaves the cache store and
\* the frames of the lectionary service as they were.
C23_MalformedDateRejected ==
    [][/\ (probe = NoProbe /\ probe'.fn # "none" /\ probe'.date_str \in MalformedDates)
          => /\ probe'.status_code = 400
             /\ store' = store
             /\ call' = call
       /\ \A date_str \in MalformedDates, name \in DayNameInputs, fails \in BOOLEAN :
             Direct_get_readings(DateArg("str", D1, date_str), name, fails)
             => /\ call'[1].pc = "raised"
                /\ call'[1].exc = "ValueError"
                /\ call'[1].consulted = <<>>
                /\ store' = store
       /\ (/\ info.pc = "idle"
           /\ info'.pc # "idle"
           /\ info'.arg.kind = "str"
           /\ info'.arg.text \in MalformedDates)
          => /\ info'.pc = "raised"
             /\ info'.exc = "ValueError"
             /\ store' = store
             /\ call' = call]_vars

\* C23 witness: the lectionary endpoint has answered an impossible date
\* with status 400 while the cache holds an entry and no call is under way.
C23_Witness ==
    /\ probe.fn = "get_lectionary"
    /\ probe.pc = "responded"
    /\ probe.date_str = "2026-02-30"
    /\ probe.status_code = 400
    /\ DOMAIN store # {}
    /\ \A p \in Callers : call[p].pc = "idle"

\* what the calls of the history h leave for the date d: the data of the
\* latest save_plan for d unless a delete_plan for d came after it
RECURSIVE LatestSaved(_, _)
LatestSaved(h, d) ==
    IF h = <<>> THEN None
    ELSE IF h[Len(h)].service_date = d
    THEN IF h[Len(h)].op = "save_plan" THEN h[Len(h)].ret ELSE None
    ELSE LatestSaved(SubSeq(h, 1, Len(h) - 1), d)

\* C24: MusicService is a store per date: get_plan(d) returns the data of
\* the latest save_plan for d that no delete_plan(d) followed, and None if
\* there is none; delete_plan(d) returns True exactly when a plan for d
\* existed, and the plans of the other dates stay; save_plan without a
\* service_date raises and leaves the store as it was.
C24_StorePerDate ==
    /\ [](/\ \A d \in MusicDates \cup {"2026-03-01"} :
               DictGet(plans, d, None) = LatestSaved(history, d)
          /\ probe.fn = "get_plan" =>
               probe.ret = LatestSaved(history, probe.service_date)
          /\ probe.fn = "delete_plan" =>
               probe.ret = Bool(LatestSaved(SubSeq(history, 1, Len(history) - 1),
                                            probe.service_date) # None)
          /\ (probe.fn = "save_plan" /\ ~Truthy(probe.service_date)) =>
               (probe.pc = "raised" /\ probe.exc = "ValueError"))
    /\ [][(probe'.fn = "save_plan" /\ probe'.pc = "raised") =>
              (plans' = plans /\ storage_path' = storage_path)]_vars

\* C24 witness: a plan for February 15 was saved, deleted with True and
\* saved again with other data, and get_plan has returned the later data.
C24_Witness ==
    /\ probe.fn = "get_plan"
    /\ probe.service_date = "2026-02-15"
    /\ Len(history) = 3
    /\ history[1].op = "save_plan" /\ history[1].service_date = "2026-02-15"
    /\ history[2].op = "delete_plan" /\ history[2].service_date = "2026-02-15"
    /\ history[2].ret = Bool(TRUE)
    /\ history[3].op = "save_plan" /\ history[3].service_date = "2026-02-15"
    /\ history[3].ret # history[1].ret
    /\ probe.ret = history[3].ret

\* C25: no two entries of the manifest have the same sha256, whatever
\* uploads, extractions, recategorisations and deletions were made from the
\* empty manifest; an upload of bytes whose sha256 is in the manifest adds
\* nothing, leaves the manifest and the files as they were and returns the
\* entry that has the sha256 with status "duplicate".
C25_Sha256Deduplication ==
    /\ [](\A i, j \in 1..Len(manifest) :
             GetItem(manifest[i], "sha256") = GetItem(manifest[j], "sha256") => i = j)
    /\ [][(/\ probe'.fn = "upload_asset"
           /\ \E i \in 1..Len(manifest) :
                 GetItem(manifest[i], "sha256") = Str(SHA256[probe'.bytes]))
          => /\ manifest' = manifest
             /\ asset_dir' = asset_dir
             /\ \E i \in 1..Len(manifest) :
                   /\ GetItem(manifest[i], "sha256") = Str(SHA256[probe'.bytes])
                   /\ probe'.ret = SetItem(manifest[i], "status", Str("duplicate"))]_vars

\* C25 witness: the logo was entered by an extraction, and an upload of the
\* same bytes has returned that entry as a duplicate, the manifest holding
\* two entries.
C25_Witness ==
    /\ probe.fn = "upload_asset"
    /\ probe.bytes = "logo bytes"
    /\ GetItem(probe.ret, "status") = Str("duplicate")
    /\ GetItem(probe.ret, "source_pdf") = Str("bulletin.pdf")
    /\ Len(manifest) = 2

====
